---- MODULE Spec2Model ----
(***************************************************************************)
(* LineLog (quark-zju/linelog.js): the edit history of one text file kept  *)
(* as a small interpreted program.  The model follows src/out/linelog.js;  *)
(* the git importer and its object reader follow src/src/git.ts.           *)
(*                                                                         *)
(* Conventions.  Program counters and line indices are 0-based as in the   *)
(* source; a TLA+ sequence s holds the source's s[i] at s[i + 1].  A       *)
(* string is a sequence of one-character strings.  An optional argument    *)
(* (null in the source) is the empty sequence << >>, a supplied value v is *)
(* << v >>.  A call that throws leaves the fields it had already written   *)
(* and names the failure in the result's "failure" field.                  *)
(***************************************************************************)
EXTENDS Integers, Sequences, FiniteSets, TLC

\* ----------------------------------------------------------------- bounds

\* Most newline-terminated lines in a text handed to recordText.
MaxLines == 1

\* recordText may create revisions up to this number.
MaxRev == 3

\* readObject calls a client of the reader makes.
MaxRequests == 2

\* cat-file processes a reader spawns.
MaxProcesses == 2

\* Commits in the history of the imported file.
MaxCommits == 2

\* Steps of the clock, of TickStep milliseconds each.
MaxTicks == 6

TickStep == 250

\* ------------------------------------------------------------- input sets

NL == "\n"

RECURSIVE Concat(_)
\* Array.join(""): the concatenation of a sequence of strings.
Concat(ss) == IF ss = << >> THEN << >> ELSE Head(ss) \o Concat(Tail(ss))

\* The newline-terminated lines texts are made of.
FullLines == {<<"a", NL>>, <<"b", NL>>}

\* What may follow the last newline of a text: nothing, or an unterminated line.
LastLines == {<< >>, <<"a">>}

\* The texts handed to recordText: up to MaxLines terminated lines, then
\* possibly an unterminated one.
Texts ==
    {Concat(ls) \o last :
        ls \in UNION {[1..k -> FullLines] : k \in 0..MaxLines}, last \in LastLines}


\* The texts of one line at most: "", "a" and "a\n".
ShortTexts == {t \in Texts : Len(t) <= 2 /\ (t = << >> \/ Head(t) = "a")}

\* Texts of up to three lines whose diffs have several blocks: "", "b\n",
\* "a\nb\n", "a\nb\na\n" and "b\na\nb\n".
LongTexts ==
    {Concat(ls) : ls \in {<< >>, << <<"b", NL>> >>,
                          << <<"a", NL>>, <<"b", NL>> >>,
                          << <<"a", NL>>, <<"b", NL>>, <<"a", NL>> >>,
                          << <<"b", NL>>, <<"a", NL>>, <<"b", NL>> >>}}

\* The timestamp argument of recordText: absent, 0 or 42.
Timestamps == {<< >>, <<0>>, <<42>>}

\* what Date.now() may return.
Clock == {1000}

\* Date.now() when the model starts.
Epoch == CHOOSE t \in Clock : TRUE

\* extra argument: absent, or an object (a set of key/value pairs).
EmptyObject == {}

FooBar == {<<"foo", "bar">>}

\* The (timestamp, extra) arguments of recordText: recordText(text, 42) and
\* recordText(text, null, {foo: "bar"}).
Metas == {<< <<42>>, << >> >>, << << >>, <<FooBar>> >>}

\* ----------------------------------------------------------- instructions

J == 0

JGE == 1

JL == 2

LINE == 3

END == 4

\* An instruction; a field its variant does not carry is 0 or "".
Inst(op, rev, pc, data) == [op |-> op, rev |-> rev, pc |-> pc, data |-> data]

InstJ(pc) == Inst(J, 0, pc, << >>)

\* The JGE instruction as it would be jumping to the last removed line.
InstJGEToLastRemoved(rev, pc) == Inst(JGE, rev, pc - 1, << >>)

InstJGE(rev, pc) == Inst(JGE, rev, pc, << >>)

\* The JL instruction as it would be never jumping: its rev is 0.
InstJLOfRevZero(rev, pc) == Inst(JL, 0, pc, << >>)

InstJL(rev, pc) == Inst(JL, rev, pc, << >>)

InstLINE(rev, data) == Inst(LINE, rev, 0, data)

InstEND == Inst(END, 0, 0, << >>)

\* The object {}: it has no op, so no case of the interpreter matches it.
InstEmpty == Inst(-1, 0, 0, << >>)

LineInfo(data, rev, pc, deleted) ==
    [data |-> data, rev |-> rev, pc |-> pc, deleted |-> deleted]

\* --------------------------------------------------------------- helpers

Min(x, y) == IF x <= y THEN x ELSE y

MaxOf(S) == CHOOSE x \in S : \A y \in S : y <= x

\* obj[key] = value on a JavaScript object used as a map.
Put(map, key, value) ==
    [k \in DOMAIN map \cup {key} |-> IF k = key THEN value ELSE map[k]]

\* Array.slice(from, to) with 0-based, end-exclusive indices.
Slice(s, from, to) == SubSeq(s, from + 1, to)

\* String.indexOf("\n", pos): -1 when there is none.
IndexOfNL(s, pos) ==
    LET hits == {i \in pos..(Len(s) - 1) : s[i + 1] = NL}
    IN  IF hits = {} THEN -1 ELSE CHOOSE i \in hits : \A j \in hits : i <= j

RECURSIVE SplitFrom(_, _, _)
SplitFrom(s, pos, result) ==
    IF pos < Len(s)
    THEN LET found == IndexOfNL(s, pos)
             nextPos == IF found = -1 THEN Len(s) - 1 ELSE found
         IN  SplitFrom(s, nextPos + 1, Append(result, Slice(s, pos, nextPos + 1)))
    ELSE result

\* splitLines: the lines of s, each keeping its newline.
splitLines(s) == SplitFrom(s, 0, << >>)

\* ------------------------------------------------------------------ diff

RECURSIVE UnitScripts(_, _, _)
\* The line-by-line edit scripts that turn x into y, each operation -1
\* (delete), 1 (insert) or 0 (equal): an equality keeps a line the two share,
\* in order.  Within a run of changes deletions come first
\* (afterInsert forbids a deletion right after an insertion), as in the
\* library's merged output.
UnitScripts(x, y, afterInsert) ==
    (IF x = << >> /\ y = << >> THEN {<< >>} ELSE {})
    \cup (IF x # << >> /\ ~afterInsert
          THEN {<<-1>> \o s : s \in UnitScripts(Tail(x), y, FALSE)}
          ELSE {})
    \cup (IF y # << >>
          THEN {<<1>> \o s : s \in UnitScripts(x, Tail(y), TRUE)}
          ELSE {})
    \cup (IF x # << >> /\ y # << >> /\ Head(x) = Head(y)
          THEN {<<0>> \o s : s \in UnitScripts(Tail(x), Tail(y), FALSE)}
          ELSE {})

RECURSIVE MergeRuns(_, _)
\* Adjacent operations of one kind become one [op, len] entry.
MergeRuns(script, acc) ==
    IF script = << >> THEN acc
    ELSE IF acc # << >> /\ acc[Len(acc)].op = Head(script)
    THEN MergeRuns(Tail(script),
                   [acc EXCEPT ![Len(acc)].len = acc[Len(acc)].len + 1])
    ELSE MergeRuns(Tail(script), Append(acc, [op |-> Head(script), len |-> 1]))

\* How many lines a script keeps.
Equalities(script) == Cardinality({i \in 1..Len(script) : script[i] = 0})

\* dmp.diff_main(chars1, chars2, false) on the texts' lines.  The library is
\* not part of the repository; it answers a shortest edit script (Myers'
\* algorithm), and which one of several is left open here.
diff_main(x, y) ==
    LET all == UnitScripts(x, y, FALSE)
        best == MaxOf({Equalities(s) : s \in all})
    IN  {MergeRuns(s, << >>) : s \in {t \in all : Equalities(t) = best}}

\* diffLines' push(len).
push(st, len) ==
    [blocks |-> IF st.a1 # st.a2 \/ st.b1 # st.b2
                THEN Append(st.blocks, <<st.a1, st.a2, st.b1, st.b2>>)
                ELSE st.blocks,
     a1 |-> st.a2 + len, a2 |-> st.a2 + len,
     b1 |-> st.b2 + len, b2 |-> st.b2 + len]

RECURSIVE FoldDiff(_, _)
\* The forEach over the diff in diffLines.
FoldDiff(diffs, st) ==
    IF diffs = << >> THEN st
    ELSE LET x == Head(diffs)
             s1 == IF x.op = 0 THEN push(st, x.len) ELSE st
             s2 == IF x.op < 0 THEN [s1 EXCEPT !.a2 = s1.a2 + x.len] ELSE s1
             s3 == IF x.op > 0 THEN [s2 EXCEPT !.b2 = s2.b2 + x.len] ELSE s2
         IN  FoldDiff(Tail(diffs), s3)

\* The blocks diffLines builds from one diff.
BlocksOf(diffs) ==
    push(FoldDiff(diffs, [blocks |-> << >>, a1 |-> 0, a2 |-> 0, b1 |-> 0, b2 |-> 0]),
         0).blocks

\* diffLines(a, b): one block sequence per diff the library may answer.
diffLines(a, b) == {BlocksOf(d) : d \in diff_main(splitLines(a), splitLines(b))}

\* Array.reverse().
Reverse(s) == [i \in 1..Len(s) |-> s[Len(s) + 1 - i]]

\* ----------------------------------------------------------- interpreter

\* The result of a call that may throw: failure is "" when it returned.
NoFailure == ""

RECURSIVE Run(_, _, _, _, _, _, _)
\* The while loop of execute.  present is a set of program counters, or
\* << >> wrapped as usePresent = FALSE when the argument is null.
Run(code, startRev, endRev, usePresent, present, st, steps) ==
    IF st.patience > 0
    THEN IF st.pc < 0 \/ st.pc >= Len(code)
         THEN [lines |-> st.lines, failure |-> "TypeError: code[pc] is undefined",
               steps |-> steps]
         ELSE LET c == code[st.pc + 1]
                  deleted == IF usePresent THEN st.pc \notin present ELSE FALSE
                  next ==
                      IF c.op = END
                      THEN [lines |-> Append(st.lines, LineInfo(<< >>, 0, st.pc, deleted)),
                            pc |-> st.pc, patience |-> -1]
                      ELSE IF c.op = LINE
                      THEN [lines |-> Append(st.lines, LineInfo(c.data, c.rev, st.pc, deleted)),
                            pc |-> st.pc + 1, patience |-> st.patience]
                      ELSE IF c.op = J
                      THEN [st EXCEPT !.pc = c.pc]
                      ELSE IF c.op = JGE
                      THEN [st EXCEPT !.pc = IF startRev >= c.rev THEN c.pc ELSE st.pc + 1]
                      ELSE [st EXCEPT !.pc = IF endRev < c.rev THEN c.pc ELSE st.pc + 1]
              IN  IF c.op \notin {END, LINE, J, JGE, JL}
                  THEN [lines |-> st.lines, failure |-> "bug: unknown code",
                        steps |-> steps]
                  ELSE Run(code, startRev, endRev, usePresent, present,
                           [next EXCEPT !.patience = next.patience - 1], steps + 1)
    ELSE [lines |-> st.lines,
          failure |-> IF st.patience = 0 THEN "bug: code does not end in time"
                      ELSE NoFailure,
          steps |-> steps]

\* execute(startRev, endRev, present): the emitted lines, or the failure.
execute(code, startRev, endRev, usePresent, present) ==
    Run(code, startRev, endRev, usePresent, present,
        [lines |-> << >>, pc |-> 0, patience |-> Len(code) * 2], 0)

\* reconstructContent on a sequence of lines.
reconstructContent(lines) == Concat([i \in 1..Len(lines) |-> lines[i].data])

\* checkOut as it would be forgetting which lines the snapshot holds: present
\* stays empty.
checkOutWithoutPresent(s, revArg, start) ==
    LET rev == Min(revArg, s.maxRev)
    IN  IF rev = s.lastCheckoutRev /\ start = << >>
        THEN [s EXCEPT !.failure = NoFailure]
        ELSE LET s1 == [s EXCEPT !.lastCheckoutRev = rev, !.failure = NoFailure]
                 snap == execute(s.code, rev, rev, FALSE, {})
             IN  IF snap.failure # NoFailure
                 THEN [s1 EXCEPT !.failure = snap.failure]
                 ELSE IF start = << >>
                 THEN [s1 EXCEPT !.lines = snap.lines,
                                 !.content = reconstructContent(snap.lines)]
                 ELSE LET present == {}
                          range == execute(s.code, start[1], rev, TRUE, present)
                      IN  IF range.failure # NoFailure
                          THEN [s1 EXCEPT !.failure = range.failure]
                          ELSE [s1 EXCEPT !.lines = range.lines,
                                          !.content = reconstructContent(range.lines)]

\* checkOut(rev, start) on the LineLog s; start is << >> or << start >>.
checkOut(s, revArg, start) ==
    LET rev == Min(revArg, s.maxRev)
    IN  IF rev = s.lastCheckoutRev /\ start = << >>
        THEN [s EXCEPT !.failure = NoFailure]
        ELSE LET s1 == [s EXCEPT !.lastCheckoutRev = rev, !.failure = NoFailure]
                 snap == execute(s.code, rev, rev, FALSE, {})
             IN  IF snap.failure # NoFailure
                 THEN [s1 EXCEPT !.failure = snap.failure]
                 ELSE IF start = << >>
                 THEN [s1 EXCEPT !.lines = snap.lines,
                                 !.content = reconstructContent(snap.lines)]
                 ELSE LET present == {snap.lines[i].pc : i \in 1..Len(snap.lines)}
                          range == execute(s.code, start[1], rev, TRUE, present)
                      IN  IF range.failure # NoFailure
                          THEN [s1 EXCEPT !.failure = range.failure]
                          ELSE [s1 EXCEPT !.lines = range.lines,
                                          !.content = reconstructContent(range.lines)]

\* The constructor.
NewLineLog ==
    checkOut([code |-> <<InstEND>>, tsMap |-> << >>, extraMap |-> << >>,
              maxRev |-> 0, lastCheckoutRev |-> -1, lines |-> << >>,
              content |-> << >>, failure |-> NoFailure, ret |-> 0,
              path |-> "constructor"],
             0, << >>)

\* ---------------------------------------------------------------- editor

\* editChunk as it would be leaving the pc of lines[a1] as it was.
editChunkKeepingPc(s, a1, a2, rev, newData) ==
    IF ~(a1 <= a2)
    THEN [s EXCEPT !.failure = "illegal chunk (a1 < a2)"]
    ELSE IF ~(a2 <= Len(s.lines))
    THEN [s EXCEPT !.failure = "out of bound a2 (forgot checkOut?)"]
    ELSE IF a1 >= Len(s.lines)
    THEN [s EXCEPT !.failure = "TypeError: lines[a1] is undefined"]
    ELSE
    LET start == Len(s.code)
        a1Pc == s.lines[a1 + 1].pc
        n == Len(newData)
        inserted == IF n > 0
                    THEN <<InstJL(rev, start + n + 1)>>
                         \o [i \in 1..n |-> InstLINE(rev, newData[i])]
                    ELSE << >>
        removed == IF a1 < a2
                   THEN <<InstJGE(rev, s.lines[a2].pc + 1)>>
                   ELSE << >>
        code2 == s.code \o inserted \o removed
        copy == IF a1Pc < Len(code2) THEN code2[a1Pc + 1] ELSE InstEmpty
        code3 == Append(code2, copy)
        code4 == IF code3[a1Pc + 1].op \in {J, END}
                 THEN code3
                 ELSE Append(code3, InstJ(a1Pc + 1))
        code5 == [code4 EXCEPT ![a1Pc + 1] = InstJ(start)]
        newLines == [i \in 1..n |-> LineInfo(newData[i], rev, start + i, FALSE)]
    IN  IF a1Pc >= Len(code3)
        THEN [s EXCEPT !.code = code3,
                       !.failure = "TypeError: code[a1Pc] is undefined"]
        ELSE [s EXCEPT !.code = code5,
                       !.lines = SubSeq(s.lines, 1, a1) \o newLines
                                 \o SubSeq(s.lines, a2 + 1, Len(s.lines)),
                       !.maxRev = IF rev > s.maxRev THEN rev ELSE s.maxRev,
                       !.lastCheckoutRev = rev]

\* editChunk as it would be without redirecting code[a1Pc] into the chunk.
editChunkWithoutRedirect(s, a1, a2, rev, newData) ==
    IF ~(a1 <= a2)
    THEN [s EXCEPT !.failure = "illegal chunk (a1 < a2)"]
    ELSE IF ~(a2 <= Len(s.lines))
    THEN [s EXCEPT !.failure = "out of bound a2 (forgot checkOut?)"]
    ELSE IF a1 >= Len(s.lines)
    THEN [s EXCEPT !.failure = "TypeError: lines[a1] is undefined"]
    ELSE
    LET start == Len(s.code)
        a1Pc == s.lines[a1 + 1].pc
        n == Len(newData)
        inserted == IF n > 0
                    THEN <<InstJL(rev, start + n + 1)>>
                         \o [i \in 1..n |-> InstLINE(rev, newData[i])]
                    ELSE << >>
        removed == IF a1 < a2
                   THEN <<InstJGE(rev, s.lines[a2].pc + 1)>>
                   ELSE << >>
        code2 == s.code \o inserted \o removed
        lines1 == [s.lines EXCEPT ![a1 + 1].pc = Len(code2)]
        copy == IF a1Pc < Len(code2) THEN code2[a1Pc + 1] ELSE InstEmpty
        code3 == Append(code2, copy)
        code4 == IF code3[a1Pc + 1].op \in {J, END}
                 THEN code3
                 ELSE Append(code3, InstJ(a1Pc + 1))
        newLines == [i \in 1..n |-> LineInfo(newData[i], rev, start + i, FALSE)]
    IN  IF a1Pc >= Len(code3)
        THEN [s EXCEPT !.code = code3, !.lines = lines1,
                       !.failure = "TypeError: code[a1Pc] is undefined"]
        ELSE [s EXCEPT !.code = code4,
                       !.lines = SubSeq(lines1, 1, a1) \o newLines
                                 \o SubSeq(lines1, a2 + 1, Len(lines1)),
                       !.maxRev = IF rev > s.maxRev THEN rev ELSE s.maxRev,
                       !.lastCheckoutRev = rev]

\* editChunk(a1, a2, rev, lines) on the LineLog s.
editChunk(s, a1, a2, rev, newData) ==
    IF ~(a1 <= a2)
    THEN [s EXCEPT !.failure = "illegal chunk (a1 < a2)"]
    ELSE IF ~(a2 <= Len(s.lines))
    THEN [s EXCEPT !.failure = "out of bound a2 (forgot checkOut?)"]
    ELSE IF a1 >= Len(s.lines)
    THEN [s EXCEPT !.failure = "TypeError: lines[a1] is undefined"]
    ELSE
    LET start == Len(s.code)
        a1Pc == s.lines[a1 + 1].pc
        n == Len(newData)
        inserted == IF n > 0
                    THEN <<InstJL(rev, start + n + 1)>>
                         \o [i \in 1..n |-> InstLINE(rev, newData[i])]
                    ELSE << >>
        removed == IF a1 < a2
                   THEN <<InstJGE(rev, s.lines[a2].pc + 1)>>
                   ELSE << >>
        code2 == s.code \o inserted \o removed
        lines1 == [s.lines EXCEPT ![a1 + 1].pc = Len(code2)]
        copy == IF a1Pc < Len(code2) THEN code2[a1Pc + 1] ELSE InstEmpty
        code3 == Append(code2, copy)
        code4 == IF code3[a1Pc + 1].op \in {J, END}
                 THEN code3
                 ELSE Append(code3, InstJ(a1Pc + 1))
        code5 == [code4 EXCEPT ![a1Pc + 1] = InstJ(start)]
        newLines == [i \in 1..n |-> LineInfo(newData[i], rev, start + i, FALSE)]
    IN  IF a1Pc >= Len(code3)
        THEN [s EXCEPT !.code = code3, !.lines = lines1,
                       !.failure = "TypeError: code[a1Pc] is undefined"]
        ELSE [s EXCEPT !.code = code5,
                       !.lines = SubSeq(lines1, 1, a1) \o newLines
                                 \o SubSeq(lines1, a2 + 1, Len(lines1)),
                       !.maxRev = IF rev > s.maxRev THEN rev ELSE s.maxRev,
                       !.lastCheckoutRev = rev]

RECURSIVE ApplyBlocks(_, _, _, _)
\* The forEach over the reversed blocks in recordText; a throw ends it.
ApplyBlocks(s, blocks, rev, lines) ==
    IF blocks = << >> \/ s.failure # NoFailure THEN s
    ELSE LET b == Head(blocks)
         IN  ApplyBlocks(editChunk(s, b[1], b[2], rev, Slice(lines, b[3], b[4])),
                         Tail(blocks), rev, lines)

\* The test for a trivial change; "throws" when lines[a1] is undefined.
TrivialTest(s, blocks) ==
    IF Len(blocks) # 1 THEN "no"
    ELSE LET b == blocks[1]
         IN  IF ~(b[2] - b[1] = 1 /\ b[4] - b[3] = 1) THEN "no"
             ELSE IF b[1] >= Len(s.lines) THEN "throws"
             ELSE IF s.lines[b[1] + 1].rev = s.maxRev
                     /\ Cardinality({i \in 1..Len(s.lines) : s.lines[i].rev = s.maxRev}) = 1
             THEN "yes"
             ELSE "no"

\* The timestamp as it would be with only an absent one replaced by the
\* clock (timestamp ?? Date.now()).
TsOfAbsentOnly(timestamp, now) ==
    IF timestamp = << >> THEN now ELSE timestamp[1]

\* timestamp || Date.now()
TsOf(timestamp, now) ==
    IF timestamp = << >> \/ timestamp[1] = 0 THEN now ELSE timestamp[1]

\* The trivial change as it would be leaving tsMap as it is.
TrivialChangeKeepingTimestamp(s, a1, newLine, text, ts) ==
    LET rev == s.maxRev
        pc == s.lines[a1 + 1].pc
    IN  IF pc >= Len(s.code)
        THEN [s EXCEPT !.failure = "TypeError: code is undefined", !.path = "trivial"]
        ELSE IF s.code[pc + 1].op = LINE
        THEN [s EXCEPT !.code[pc + 1].data = newLine,
                       !.lines[a1 + 1].data = newLine,
                       !.content = text,
                       !.ret = rev,
                       !.path = "trivial"]
        ELSE [s EXCEPT !.failure = "bug: inconsistent op", !.path = "trivial"]

\* The trivial change of recordText: the LINE is rewritten in place.
TrivialChange(s, a1, newLine, text, ts) ==
    LET rev == s.maxRev
        s1 == [s EXCEPT !.tsMap = Put(s.tsMap, rev, ts)]
        pc == s.lines[a1 + 1].pc
    IN  IF pc >= Len(s.code)
        THEN [s1 EXCEPT !.failure = "TypeError: code is undefined", !.path = "trivial"]
        ELSE IF s.code[pc + 1].op = LINE
        THEN [s1 EXCEPT !.code[pc + 1].data = newLine,
                        !.lines[a1 + 1].data = newLine,
                        !.content = text,
                        !.ret = rev,
                        !.path = "trivial"]
        ELSE [s1 EXCEPT !.failure = "bug: inconsistent op", !.path = "trivial"]

\* The non-trivial change as it would be with rev = this.maxRev, the
\* increment forgotten.
GeneralChangeSameRev(s, blocks, lines, text, ts, extra) ==
    LET rev == s.maxRev
        s1 == [s EXCEPT !.tsMap = Put(s.tsMap, rev, ts), !.path = "general"]
        s2 == ApplyBlocks(s1, Reverse(blocks), rev, lines)
    IN  IF s2.failure # NoFailure THEN s2
        ELSE [s2 EXCEPT !.content = text, !.ret = rev]

\* The non-trivial change as it would be without recording the timestamp.
GeneralChangeWithoutTimestamp(s, blocks, lines, text, ts, extra) ==
    LET rev == s.maxRev + 1
        s1 == [s EXCEPT !.extraMap = IF extra # << >>
                                     THEN Put(s.extraMap, rev, extra[1])
                                     ELSE s.extraMap,
                        !.path = "general"]
        s2 == ApplyBlocks(s1, Reverse(blocks), rev, lines)
    IN  IF s2.failure # NoFailure THEN s2
        ELSE [s2 EXCEPT !.content = text, !.ret = rev]

\* The non-trivial change as it would be applying the blocks in the order
\* diffLines gave them.
GeneralChangeInOrder(s, blocks, lines, text, ts, extra) ==
    LET rev == s.maxRev + 1
        s1 == [s EXCEPT !.tsMap = Put(s.tsMap, rev, ts),
                        !.extraMap = IF extra # << >>
                                     THEN Put(s.extraMap, rev, extra[1])
                                     ELSE s.extraMap,
                        !.path = "general"]
        s2 == ApplyBlocks(s1, blocks, rev, lines)
    IN  IF s2.failure # NoFailure THEN s2
        ELSE [s2 EXCEPT !.content = text, !.ret = rev]

\* The non-trivial change of recordText.
GeneralChange(s, blocks, lines, text, ts, extra) ==
    LET rev == s.maxRev + 1
        s1 == [s EXCEPT !.tsMap = Put(s.tsMap, rev, ts),
                        !.extraMap = IF extra # << >>
                                     THEN Put(s.extraMap, rev, extra[1])
                                     ELSE s.extraMap,
                        !.path = "general"]
        s2 == ApplyBlocks(s1, Reverse(blocks), rev, lines)
    IN  IF s2.failure # NoFailure THEN s2
        ELSE [s2 EXCEPT !.content = text, !.ret = rev]

\* recordText past its test for unchanged text: checkOut(maxRev), then the
\* trivial or the non-trivial change, with Date.now() = now and blocks the
\* answer of diffLines(a, b).
recordChange(s, text, timestamp, extra, now, blocks) ==
    LET lines == splitLines(text)
        s1 == [checkOut(s, s.maxRev, << >>) EXCEPT !.path = "checkOut"]
        ts == TsOf(timestamp, now)
        trivial == TrivialTest(s1, blocks)
    IN  IF s1.failure # NoFailure THEN s1
        ELSE IF trivial = "throws"
        THEN [s1 EXCEPT !.failure = "TypeError: lines[a1] is undefined"]
        ELSE IF trivial = "yes"
        THEN TrivialChange(s1, blocks[1][1], lines[blocks[1][3] + 1], text, ts)
        ELSE GeneralChange(s1, blocks, lines, text, ts, extra)

\* recordText as it would be without the test for unchanged text.
recordTextAlwaysChanges(s, text, timestamp, extra, now, blocks) ==
    recordChange(s, text, timestamp, extra, now, blocks)

\* recordText(text, timestamp, extra) on the LineLog s.
recordText(s, text, timestamp, extra, now, blocks) ==
    LET a == s.content
        b == text
    IN  IF a = b
        THEN [s EXCEPT !.ret = s.maxRev, !.failure = NoFailure, !.path = "unchanged"]
        ELSE recordChange(s, b, timestamp, extra, now, blocks)

\* JavaScript's undefined, as a result.
Undefined == << >>

\* getLineTimestamp as it would be looking tsMap up by the line index
\* instead of the line's rev.
getLineTimestampOfIndex(s, i) ==
    IF i >= Len(s.lines) - 1 THEN <<0>>
    ELSE IF i \in DOMAIN s.tsMap THEN <<s.tsMap[i]>> ELSE Undefined

\* getLineTimestamp(i): << ts >> for the number ts, or Undefined.
getLineTimestamp(s, i) ==
    IF i >= Len(s.lines) - 1 THEN <<0>>
    ELSE LET rev == s.lines[i + 1].rev
         IN  IF rev \in DOMAIN s.tsMap THEN <<s.tsMap[rev]>> ELSE Undefined

\* getLineExtra(i)
getLineExtra(s, i) ==
    IF i >= Len(s.lines) - 1 THEN EmptyObject
    ELSE LET rev == s.lines[i + 1].rev
         IN  IF rev \in DOMAIN s.extraMap THEN s.extraMap[rev] ELSE EmptyObject

\* The decimal digits, for Number-to-String conversion.
Digits == <<"0", "1", "2", "3", "4", "5", "6", "7", "8", "9">>

RECURSIVE NumberToString(_)
\* String(n) of a non-negative integer: the name of the property obj[n].
NumberToString(n) ==
    IF n < 10 THEN <<Digits[n + 1]>>
    ELSE NumberToString(n \div 10) \o <<Digits[(n % 10) + 1]>>

RECURSIVE StringToNumber(_, _)
\* The integer a string of decimal digits names, continuing from acc.
StringToNumber(str, acc) ==
    IF str = << >> THEN acc
    ELSE StringToNumber(Tail(str),
                  10 * acc + (CHOOSE d \in 0..9 : Digits[d + 1] = Head(str)))

\* The JSON object of an instruction: the properties its variant carries.
StringifyInst(c) ==
    (IF c.op # InstEmpty.op THEN {<<"op", c.op>>} ELSE {})
    \cup (IF c.op \in {JGE, JL, LINE} THEN {<<"rev", c.rev>>} ELSE {})
    \cup (IF c.op \in {J, JGE, JL} THEN {<<"pc", c.pc>>} ELSE {})
    \cup (IF c.op = LINE THEN {<<"data", c.data>>} ELSE {})

\* The JSON object of a rev -> value map: property names are strings.
StringifyMap(map) == {<<NumberToString(k), map[k]>> : k \in DOMAIN map}

\* JSON.stringify({ code, tsMap, extraMap }): an object is the set of its
\* (name, value) pairs, an array a sequence.
JSONstringify(obj) ==
    {<<"code", [i \in 1..Len(obj.code) |-> StringifyInst(obj.code[i])]>>,
     <<"tsMap", StringifyMap(obj.tsMap)>>,
     <<"extraMap", StringifyMap(obj.extraMap)>>}

\* obj[name] of a parsed JSON object, missing when it has no such property.
Property(obj, name, missing) ==
    IF \E p \in obj : p[1] = name
    THEN (CHOOSE p \in obj : p[1] = name)[2]
    ELSE missing

\* The instruction a parsed JSON object is read as.
ParseInst(o) ==
    Inst(Property(o, "op", -1), Property(o, "rev", 0), Property(o, "pc", 0),
         Property(o, "data", << >>))

\* The rev -> value map a parsed JSON object is read as: map[rev] looks the
\* property String(rev) up.
ParseMap(o) ==
    [k \in {StringToNumber(p[1], 0) : p \in o} |-> Property(o, NumberToString(k), << >>)]

\* JSON.parse of the text of an exported object; a missing tsMap or
\* extraMap is undefined.
JSONparse(doc) ==
    LET c == Property(doc, "code", << >>)
    IN  [code |-> [i \in 1..Len(c) |-> ParseInst(c[i])],
         tsMap |-> IF \E p \in doc : p[1] = "tsMap"
                   THEN ParseMap(Property(doc, "tsMap", {}))
                   ELSE << >>,
         extraMap |-> IF \E p \in doc : p[1] = "extraMap"
                      THEN ParseMap(Property(doc, "extraMap", {}))
                      ELSE << >>]

\* zlib.gzipSync: a buffer that gunzipSync turns back into the data.
gzipSync(data) == [gzip |-> data]

\* zlib.gunzipSync
gunzipSync(buf) == buf.gzip

\* export()
export(s) ==
    gzipSync(JSONstringify([code |-> s.code, tsMap |-> s.tsMap,
                            extraMap |-> s.extraMap]))

\* import as it would be leaving extraMap as it is.
importWithoutExtraMap(s, buf) ==
    LET obj == JSONparse(gunzipSync(buf))
        revs == {IF obj.code[i].op = JGE \/ obj.code[i].op = JL
                 THEN obj.code[i].rev
                 ELSE 0 : i \in 1..Len(obj.code)}
        s1 == [s EXCEPT !.code = obj.code,
                        !.tsMap = obj.tsMap,
                        !.maxRev = MaxOf(revs \cup {0}),
                        !.failure = NoFailure,
                        !.path = "import"]
    IN  checkOut(s1, s1.maxRev, << >>)

\* import as it would be taking maxRev from the JL instructions alone.
importCountingJL(s, buf) ==
    LET obj == JSONparse(gunzipSync(buf))
        revs == {IF obj.code[i].op = JL THEN obj.code[i].rev ELSE 0 :
                 i \in 1..Len(obj.code)}
        s1 == [s EXCEPT !.code = obj.code,
                        !.tsMap = obj.tsMap,
                        !.extraMap = obj.extraMap,
                        !.maxRev = MaxOf(revs \cup {0}),
                        !.failure = NoFailure,
                        !.path = "import"]
    IN  checkOut(s1, s1.maxRev, << >>)

\* import(buf) on the LineLog s; undefined || {} is the empty map.
import(s, buf) ==
    LET obj == JSONparse(gunzipSync(buf))
        revs == {IF obj.code[i].op = JGE \/ obj.code[i].op = JL
                 THEN obj.code[i].rev
                 ELSE 0 : i \in 1..Len(obj.code)}
        s1 == [s EXCEPT !.code = obj.code,
                        !.tsMap = obj.tsMap,
                        !.extraMap = obj.extraMap,
                        !.maxRev = MaxOf(revs \cup {0}),
                        !.failure = NoFailure,
                        !.path = "import"]
    IN  checkOut(s1, s1.maxRev, << >>)

\* ------------------------------------------------------- git repository

\* The commits of the repository and the path of the file.  c1 and c2 are
\* whole; cb lacks the blob of the file; cc lacks its commit object (as in
\* a shallow repository); c0 has a commit object without an author line.
Commits == {"c1", "c2", "cb", "cc", "c0"}

FilePath == "f"

\* The object name `${commit}:${path}` of a blob, and the one of a commit.
BlobSpec(commit, path) == <<commit, path>>

CommitSpec(commit) == <<commit>>

\* What cat-file answers for an object it does not have.
Missing == "missing"

\* The text of a commit object, one entry per line, each line as its
\* split(" "): "author Jun Wu <q@example.com> 1591577310 -0700".
CommitText(seconds) ==
    << <<"tree", "t">>,
       <<"author", "Jun", "Wu", "<q@example.com>", seconds, "-0700">>,
       <<"committer", "Jun", "Wu", "<q@example.com>", seconds, "-0700">>,
       << >>,
       <<"Add", "README">> >>

\* A commit object with no author line.
CommitTextWithoutAuthor ==
    << <<"tree", "t">>,
       <<"committer", "Jun", "Wu", "<q@example.com>", 9, "-0700">>,
       << >>,
       <<"Edit">> >>

\* The object git cat-file --batch finds under a name: its type and its
\* bytes, or Missing.
Object(spec) ==
    IF Len(spec) = 2
    THEN IF spec[1] \in {"c1", "cc"} THEN [type |-> "blob", bytes |-> <<"a", NL>>]
         ELSE IF spec[1] = "c2" THEN [type |-> "blob", bytes |-> <<"b", NL>>]
         ELSE IF spec[1] = "c0" THEN [type |-> "blob", bytes |-> <<"a">>]
         ELSE [type |-> Missing, bytes |-> << >>]
    ELSE IF spec[1] = "c1" THEN [type |-> "commit", bytes |-> CommitText(1)]
         ELSE IF spec[1] = "c2" THEN [type |-> "commit", bytes |-> CommitText(2)]
         ELSE IF spec[1] = "cb" THEN [type |-> "commit", bytes |-> CommitText(3)]
         ELSE IF spec[1] = "c0" THEN [type |-> "commit", bytes |-> CommitTextWithoutAuthor]
         ELSE [type |-> Missing, bytes |-> << >>]

\* ------------------------------------------------------ git object reader

\* The delay of the clean-up timer and the idle time after which the
\* cat-file process is stopped, in milliseconds.
TimerDelay == 250

IdleLimit == 1100

\* A piece of what cat-file writes to its stdout for the request req: the
\* beginning of the header line ("frag"), the rest of the header line with
\* its newline ("head"), or the object's bytes with the closing newline
\* ("body").  A chunk handed to a 'data' listener is a run of pieces.
Piece(req, part) == [req |-> req, part |-> part]

\* What cat-file --batch writes for the object name spec that request req
\* wrote to its stdin: "<name> missing\n", or "<oid> <type> <len>\n<bytes>\n".
Response(req, spec) ==
    IF Object(spec).type = Missing
    THEN <<Piece(req, "frag"), Piece(req, "head")>>
    ELSE <<Piece(req, "frag"), Piece(req, "head"), Piece(req, "body")>>

\* A readObject call: its arguments, where it stands ("waiting" for the
\* mutex, "reading" with its listeners on the stdout of proc, "resolved" or
\* "rejected"), the error it rejected with, the chunks its listener has
\* gathered in buf, and the name of the object whose bytes it resolved with.
Request(spec, expectedType) ==
    [spec |-> spec, expectedType |-> expectedType, status |-> "waiting",
     error |-> NoFailure, buf |-> << >>, proc |-> 0, data |-> << >>]

\* A task waiting for the mutex: the callback of withProcess for request req,
\* or the callback of autoCleanUp.
ReadTask(req) == [kind |-> "read", req |-> req]

AutoTask == [kind |-> "auto", req |-> 0]

\* new GitObjectReader(root) at time now.  process is 0 for null, else the
\* number of the child process; children and stdout hold, per child process
\* spawned, its state and what it wrote that was not read yet.  started and
\* autos are history: when the last request entered withProcess, and what
\* the clean-up callbacks of the current step decided.
NewGitObjectReader(now) ==
    [process |-> 0, mtime |-> now,
     mutex |-> [locked |-> FALSE, queue |-> << >>],
     timers |-> << >>, requests |-> << >>, stdout |-> << >>,
     children |-> << >>, started |-> now, autos |-> << >>]

\* The requests that have their listeners on the stdout of child p.
Listeners(R, p) ==
    {i \in 1..Len(R.requests) :
        R.requests[i].status = "reading" /\ R.requests[i].proc = p}

\* The requests that have listeners on some stdout.
Reading(R) == {i \in 1..Len(R.requests) : R.requests[i].status = "reading"}

\* cleanUp(): stop the background process.
cleanUp(R) ==
    IF R.process # 0
    THEN [R EXCEPT !.children[R.process] = "killed", !.process = 0]
    ELSE R

\* scheduleAutoCleanUp(): a timer due in 250 ms.
scheduleAutoCleanUp(R, now) ==
    [R EXCEPT !.timers = Append(@, now + TimerDelay)]

\* The callback autoCleanUp runs under the mutex.
exclusiveCleanUp(R, now) ==
    LET decision == [kill |-> ~(now - R.mtime < IdleLimit),
                     idle |-> now - R.started,
                     reading |-> Reading(R),
                     process |-> R.process]
        R1 == [R EXCEPT !.autos = Append(@, decision)]
    IN  IF now - R.mtime < IdleLimit
        THEN scheduleAutoCleanUp(R1, now)
        ELSE cleanUp(R1)

\* The callback of readObject: listeners on the stdout of the process, then
\* the object name written to its stdin, which cat-file answers.
readObjectCallback(R, i) ==
    [R EXCEPT !.requests[i].status = "reading",
              !.requests[i].proc = R.process,
              !.stdout[R.process] = @ \o Response(i, R.requests[i].spec)]

\* The callback of withProcess as it would be leaving mtime alone.
withProcessCallbackKeepingMtime(R, i, now) ==
    LET R1 == [R EXCEPT !.started = now]
        R2 == IF R1.process = 0
              THEN scheduleAutoCleanUp(
                       [R1 EXCEPT !.children = Append(@, "running"),
                                  !.stdout = Append(@, << >>),
                                  !.process = Len(R1.children) + 1],
                       now)
              ELSE R1
    IN  readObjectCallback(R2, i)

\* The callback of withProcess for request i: mtime, the process spawned
\* when there is none, then the callback of readObject.
withProcessCallback(R, i, now) ==
    LET R1 == [R EXCEPT !.mtime = now, !.started = now]
        R2 == IF R1.process = 0
              THEN scheduleAutoCleanUp(
                       [R1 EXCEPT !.children = Append(@, "running"),
                                  !.stdout = Append(@, << >>),
                                  !.process = Len(R1.children) + 1],
                       now)
              ELSE R1
    IN  readObjectCallback(R2, i)

RECURSIVE release(_, _)
\* The mutex released: the first waiting task gets it and runs.  The
\* clean-up callback ends at once and releases the mutex again; a request
\* keeps it until its promise settles.
release(R, now) ==
    IF R.mutex.queue = << >>
    THEN [R EXCEPT !.mutex.locked = FALSE]
    ELSE LET task == Head(R.mutex.queue)
             R1 == [R EXCEPT !.mutex.queue = Tail(@)]
         IN  IF task.kind = "auto"
             THEN release(exclusiveCleanUp(R1, now), now)
             ELSE withProcessCallback(R1, task.req, now)

\* mutex.runExclusive(callback): the callback runs now when the mutex is
\* free and after the tasks waiting before it otherwise.
runExclusive(R, task, now) ==
    LET R1 == [R EXCEPT !.mutex.queue = Append(@, task)]
    IN  IF R.mutex.locked
        THEN R1
        ELSE release([R1 EXCEPT !.mutex.locked = TRUE], now)

\* readObject(spec, expectedType): a new request, queued for the mutex.
readObject(R, spec, expectedType, now) ==
    LET R1 == [R EXCEPT !.requests = Append(@, Request(spec, expectedType))]
    IN  runExclusive(R1, ReadTask(Len(R1.requests)), now)

\* The promise of request i settles: finalize removes its listeners, the
\* promise resolves or rejects, and runExclusive releases the mutex.
settle(R, i, status, error, data, now) ==
    release([R EXCEPT !.requests[i].status = status,
                      !.requests[i].error = error,
                      !.requests[i].data = data],
            now)

\* The first line of buf, as the 'data' listener reads it: the position of
\* the first piece that holds a newline, 0 when there is none.
NewLinePos(buf) ==
    LET hits == {k \in 1..Len(buf) : buf[k].part \in {"head", "body"}}
    IN  IF hits = {} THEN 0 ELSE CHOOSE k \in hits : \A j \in hits : k <= j

\* The 'data' listener of request i, given a chunk.
onData(R, i, chunk, now) ==
    LET r == R.requests[i]
        buf == r.buf \o chunk
        R1 == [R EXCEPT !.requests[i].buf = buf]
        pos == NewLinePos(buf)
        \* a header line is "<oid> <type> <len>" or "<name> missing"; the
        \* first line of an object's bytes is neither
        isHeader == buf[pos].part = "head"
        object == Object(R.requests[buf[pos].req].spec)
        type == IF isHeader THEN object.type ELSE "undefined"
    IN  IF pos = 0
        THEN R1
        ELSE IF isHeader /\ object.type = Missing
        THEN settle(R1, i, "rejected", "missing", << >>, now)
        ELSE IF r.expectedType # << >> /\ r.expectedType[1] # type
        THEN settle(R1, i, "rejected", "does not match expected", << >>, now)
        ELSE IF isHeader /\ Len(buf) > pos
        THEN settle(R1, i, "resolved", NoFailure,
                    <<R.requests[buf[pos + 1].req].spec>>, now)
        ELSE R1

RECURSIVE emitData(_, _, _, _)
\* stdout emits 'data' with a chunk to the listeners it has, in the order
\* they were added.
emitData(R, ids, chunk, now) ==
    IF ids = {}
    THEN R
    ELSE LET i == CHOOSE x \in ids : \A y \in ids : x <= y
         IN  emitData(onData(R, i, chunk, now), ids \ {i}, chunk, now)

RECURSIVE emitClose(_, _, _)
\* stdout emits 'close' to the listeners it has.
emitClose(R, ids, now) ==
    IF ids = {}
    THEN R
    ELSE LET i == CHOOSE x \in ids : \A y \in ids : x <= y
         IN  emitClose(settle(R, i, "rejected", "git has closed its stdout",
                              << >>, now),
                       ids \ {i}, now)

\* The timer fires: autoCleanUp().
autoCleanUp(R, now) ==
    IF R.process # 0
    THEN runExclusive(R, AutoTask, now)
    ELSE R

\* getCommit: the CommitInfo parsed from the text of a commit object.
RECURSIVE ParseCommit(_, _, _)
ParseCommit(text, info, inBody) ==
    IF text = << >>
    THEN info
    ELSE LET line == Head(text)
             parts == line
         IN  IF ~inBody
             THEN IF Len(line) > 1 /\ line[1] = "author"
                  THEN ParseCommit(Tail(text),
                                   [info EXCEPT !.timestamp = parts[Len(parts) - 1],
                                                !.author = SubSeq(parts, 2, Len(parts) - 2)],
                                   FALSE)
                  ELSE IF Len(line) > 1 /\ line[1] = "committer"
                  THEN ParseCommit(Tail(text), info, TRUE)
                  ELSE ParseCommit(Tail(text), info, FALSE)
             ELSE ParseCommit(Tail(text), [info EXCEPT !.message = Append(@, line)], TRUE)

\* message.trim(): the message without the empty lines around it.
RECURSIVE Trim(_)
Trim(message) ==
    IF message = << >> THEN message
    ELSE IF Head(message) = << >> THEN Trim(Tail(message))
    ELSE IF message[Len(message)] = << >> THEN Trim(SubSeq(message, 1, Len(message) - 1))
    ELSE message

getCommit(commit, text) ==
    LET info == ParseCommit(text,
                            [commit |-> commit, author |-> <<"unknown">>,
                             message |-> << >>, timestamp |-> 0],
                            FALSE)
    IN  [info EXCEPT !.message = Trim(@)]

\* --------------------------------------------------------------- importer

\* What logFile answers: the commits that touched the file, newest first,
\* each with the path the file had.
Histories ==
    {h \in UNION {[1..n -> Commits] : n \in 0..MaxCommits} :
        \A i, j \in 1..Len(h) : h[i] = h[j] => i = j}

CommitPath(commit) == [commit |-> commit, path |-> FilePath]

\* buildLineLogFromGitHistory before its loop: history is the reversed log,
\* k the number of commits the loop has taken, pc where the function waits
\* ("idle" before the call, "catFile" or "getCommit" at an await, "done"
\* once it returned), req the request awaited, text the blob read; events
\* is history: the calls made to the reader and to the LineLog, in order.
NewImporter ==
    [pc |-> "idle", log |-> << >>, history |-> << >>, k |-> 0, req |-> 0, text |-> << >>,
     events |-> << >>]

\* A state of the importer B with the reader R it uses.
Pair(R, B) == [reader |-> R, importer |-> B]

\* The loop as it would be ending at the first commit it could not read.
nextCommitStoppingAtFailure(R, B, now) ==
    IF B.k < Len(B.history) /\ (B.req = 0 \/ R.requests[B.req].status # "rejected")
    THEN LET entry == B.history[B.k + 1]
             R1 == readObject(R, BlobSpec(entry.commit, entry.path), <<"blob">>, now)
         IN  Pair(R1, [B EXCEPT !.k = B.k + 1, !.pc = "catFile",
                                !.req = Len(R1.requests),
                                !.events = Append(@, <<"catFile", entry.commit>>)])
    ELSE Pair(cleanUp(R), [B EXCEPT !.pc = "done", !.req = 0,
                                    !.events = Append(@, <<"cleanUp">>)])

\* The function as it would be returning without reader.cleanUp().
nextCommitWithoutCleanUp(R, B, now) ==
    IF B.k < Len(B.history)
    THEN LET entry == B.history[B.k + 1]
             R1 == readObject(R, BlobSpec(entry.commit, entry.path), <<"blob">>, now)
         IN  Pair(R1, [B EXCEPT !.k = B.k + 1, !.pc = "catFile",
                                !.req = Len(R1.requests),
                                !.events = Append(@, <<"catFile", entry.commit>>)])
    ELSE Pair(R, [B EXCEPT !.pc = "done", !.req = 0,
                           !.events = Append(@, <<"cleanUp">>)])

\* The loop takes its next commit and calls reader.catFile(commit, path);
\* after the last one, finally runs reader.cleanUp() and the function
\* returns.
nextCommit(R, B, now) ==
    IF B.k < Len(B.history)
    THEN LET entry == B.history[B.k + 1]
             R1 == readObject(R, BlobSpec(entry.commit, entry.path), <<"blob">>, now)
         IN  Pair(R1, [B EXCEPT !.k = B.k + 1, !.pc = "catFile",
                                !.req = Len(R1.requests),
                                !.events = Append(@, <<"catFile", entry.commit>>)])
    ELSE Pair(cleanUp(R), [B EXCEPT !.pc = "done", !.req = 0,
                                    !.events = Append(@, <<"cleanUp">>)])

\* catFile resolved: text is the blob as a string, and the function calls
\* reader.getCommit(commit).
afterCatFile(R, B, now) ==
    LET entry == B.history[B.k]
        R1 == readObject(R, CommitSpec(entry.commit), <<"commit">>, now)
    IN  Pair(R1, [B EXCEPT !.pc = "getCommit",
                           !.text = Object(R.requests[B.req].data[1]).bytes,
                           !.req = Len(R1.requests),
                           !.events = Append(@, <<"getCommit", entry.commit>>)])

\* The CommitPathInfo handed to recordText once getCommit resolved.
CommitPathInfo(R, B) ==
    LET entry == B.history[B.k]
    IN  [commit |-> getCommit(entry.commit, Object(R.requests[B.req].data[1]).bytes),
         path |-> entry.path]

\* The timestamp as it would be passed in seconds.
MillisecondsAsSeconds(seconds) == seconds

\* commitInfo.timestamp * 1000
Milliseconds(seconds) == seconds * 1000

\* The importer waits for a request that has settled.
Resumes(R, B) ==
    /\ B.pc \in {"catFile", "getCommit"}
    /\ R.requests[B.req].status \in {"resolved", "rejected"}

\* The importer resumes and calls log.recordText.
Records(R, B) ==
    /\ Resumes(R, B)
    /\ B.pc = "getCommit"
    /\ R.requests[B.req].status = "resolved"

\* ------------------------------------------------------------------ state

VARIABLES
    code,             \* the program
    tsMap,            \* rev -> timestamp
    extraMap,         \* rev -> object
    maxRev,
    lastCheckoutRev,
    lines,            \* the current view
    content,
    failure,          \* what the last call threw, NoFailure when it returned
    ret,              \* what the last recordText returned
    path,             \* the branch the last call took
    call,             \* the last call, its arguments and the diff it was given
    recorded,         \* rev -> the arguments of the last recordText that returned it
    generalCalls,     \* how many recordText calls returned from the non-trivial change
    exported,         \* the buffer export() returned, << >> when none was
                      \* taken since the last recordText or checkOut
    process,          \* GitObjectReader.process: 0 for null, else the child
    mtime,            \* GitObjectReader.mtime
    mutex,            \* GitObjectReader.mutex: locked, and the tasks waiting
    timers,           \* when the pending clean-up timers are due
    requests,         \* the readObject calls made
    stdout,           \* per child process: what it wrote and nobody read yet
    children,         \* per child process: "running", "killed" or "closed"
    started,          \* when the last request entered withProcess
    autos,            \* what the clean-up callbacks of the last step decided
    time,             \* Date.now()
    event,            \* what the event loop ran last
    importer          \* buildLineLogFromGitHistory: where it stands

logVars == <<code, tsMap, extraMap, maxRev, lastCheckoutRev, lines, content,
             failure, ret, path, call, recorded, generalCalls, exported>>

gitVars == <<process, mtime, mutex, timers, requests, stdout, children,
             started, autos, time, event, importer>>

vars == <<logVars, gitVars>>

\* The LineLog object of the current state.
Self ==
    [code |-> code, tsMap |-> tsMap, extraMap |-> extraMap, maxRev |-> maxRev,
     lastCheckoutRev |-> lastCheckoutRev, lines |-> lines, content |-> content,
     failure |-> failure, ret |-> ret, path |-> path]

\* The next state holds the LineLog n.
Becomes(n) ==
    /\ code' = n.code
    /\ tsMap' = n.tsMap
    /\ extraMap' = n.extraMap
    /\ maxRev' = n.maxRev
    /\ lastCheckoutRev' = n.lastCheckoutRev
    /\ lines' = n.lines
    /\ content' = n.content
    /\ failure' = n.failure
    /\ ret' = n.ret
    /\ path' = n.path

\* A call's record: the operation, its arguments (checkOut's rev is left in
\* lastCheckoutRev) and, for recordText, the blocks diffLines answered.
Call(op, text, start, timestamp, extra, blocks) ==
    [op |-> op, text |-> text, start |-> start, timestamp |-> timestamp,
     extra |-> extra, blocks |-> blocks]

\* new LineLog, and new GitObjectReader(root)
Init ==
    /\ code = NewLineLog.code
    /\ tsMap = NewLineLog.tsMap
    /\ extraMap = NewLineLog.extraMap
    /\ maxRev = NewLineLog.maxRev
    /\ lastCheckoutRev = NewLineLog.lastCheckoutRev
    /\ lines = NewLineLog.lines
    /\ content = NewLineLog.content
    /\ failure = NewLineLog.failure
    /\ ret = NewLineLog.ret
    /\ path = NewLineLog.path
    /\ call = Call("new", << >>, << >>, << >>, << >>, << >>)
    /\ recorded = << >>
    /\ generalCalls = 0
    /\ exported = << >>
    /\ time = Epoch
    /\ process = NewGitObjectReader(Epoch).process
    /\ mtime = NewGitObjectReader(Epoch).mtime
    /\ mutex = NewGitObjectReader(Epoch).mutex
    /\ timers = NewGitObjectReader(Epoch).timers
    /\ requests = NewGitObjectReader(Epoch).requests
    /\ stdout = NewGitObjectReader(Epoch).stdout
    /\ children = NewGitObjectReader(Epoch).children
    /\ started = NewGitObjectReader(Epoch).started
    /\ autos = NewGitObjectReader(Epoch).autos
    /\ event = [op |-> "new", proc |-> 0]
    /\ importer = NewImporter

\* log.checkOut(rev) and log.checkOut(rev, start)
CheckOutCall(rev, start, keep) ==
    /\ Becomes([checkOut(Self, rev, start) EXCEPT !.path = "checkOut"])
    /\ call' = Call("checkOut", << >>, start, << >>, << >>, << >>)
    /\ exported' = IF keep THEN exported ELSE << >>
    /\ UNCHANGED <<recorded, generalCalls>>
    /\ UNCHANGED gitVars

\* log.checkOut(rev, start), after which the caller drops a buffer exported
\* before
CheckOut(rev, start) == CheckOutCall(rev, start, FALSE)

\* log.recordText(text, timestamp, extra); keep tells whether the caller
\* keeps a buffer exported before the change.
Recorded(text, timestamp, extra, keep, clock, blocks) ==
    LET n == recordText(Self, text, timestamp, extra, clock, blocks)
        returned == n.failure = NoFailure
    IN  /\ n.path = "general" => maxRev < MaxRev
        /\ Becomes(n)
        /\ call' = Call("recordText", text, << >>, timestamp, extra,
                        IF n.path = "unchanged" THEN << >> ELSE blocks)
        /\ recorded' = IF returned /\ n.path \in {"trivial", "general"}
                       THEN Put(recorded, n.ret,
                                [text |-> text, timestamp |-> timestamp,
                                 extra |-> extra, now |-> clock])
                       ELSE recorded
        /\ generalCalls' = IF returned /\ n.path = "general"
                           THEN generalCalls + 1
                           ELSE generalCalls
        /\ exported' = IF keep \/ n.path = "unchanged" THEN exported ELSE << >>

\* log.recordText(text, timestamp, extra) by a caller of the LineLog alone
RecordCall(text, timestamp, extra, keep) ==
    \E clock \in Clock, blocks \in diffLines(content, text) :
        /\ Recorded(text, timestamp, extra, keep, clock, blocks)
        /\ UNCHANGED gitVars

\* log.recordText(text, timestamp, extra), after which the caller drops a
\* buffer exported before the change
RecordText(text, timestamp, extra) == RecordCall(text, timestamp, extra, FALSE)

\* buf = log.export(): the buffer, and with it the LineLog it was taken from
\* and that LineLog's history.
Export ==
    /\ exported' = <<[buf |-> export(Self), from |-> Self,
                      recorded |-> recorded, generalCalls |-> generalCalls]>>
    /\ call' = Call("export", << >>, << >>, << >>, << >>, << >>)
    /\ UNCHANGED <<code, tsMap, extraMap, maxRev, lastCheckoutRev, lines,
                   content, failure, ret, path, recorded, generalCalls>>
    /\ UNCHANGED gitVars

\* target.import(buf) of the exported buffer; target becomes the LineLog.
Import(target, op) ==
    /\ exported # << >>
    /\ Becomes(import(target, exported[1].buf))
    /\ call' = Call(op, << >>, << >>, << >>, << >>, << >>)
    /\ recorded' = exported[1].recorded
    /\ generalCalls' = exported[1].generalCalls
    /\ UNCHANGED exported
    /\ UNCHANGED gitVars

\* log = new LineLog(); log.import(buf)
ImportFresh == Import(NewLineLog, "importFresh")

\* log.import(buf) on the LineLog in use
ImportUsed == Import(Self, "import")

\* checkOut(rev) for some rev, also one beyond maxRev
CheckOutSnapshot == \E rev \in 0..(MaxRev + 1) : CheckOut(rev, << >>)

\* checkOut(rev, start) for some rev and some start up to it
CheckOutRange ==
    \E rev \in 0..(MaxRev + 1), start \in 0..MaxRev :
        start <= rev /\ CheckOut(rev, <<start>>)

\* recordText with a fixed timestamp and no extra
RecordPlain == \E text \in Texts : RecordText(text, <<42>>, << >>)

\* recordText of a text of one line at most
RecordShort == \E text \in ShortTexts : RecordText(text, <<42>>, << >>)

\* checkOut(rev, start) for some rev and any start, also one beyond rev
CheckOutAnyRange ==
    \E rev \in 0..(MaxRev + 1), start \in 0..(MaxRev + 1) : CheckOut(rev, <<start>>)

\* recordText with or without a timestamp and an extra
RecordAny == \E text \in Texts, meta \in Metas : RecordText(text, meta[1], meta[2])

Next == CheckOutSnapshot \/ CheckOutRange \/ RecordPlain

\* Any sequence of checkOut and recordText calls on a new LineLog.
Spec == Init /\ [][Next]_vars

NextAnyRange == CheckOutSnapshot \/ CheckOutAnyRange \/ RecordShort

\* Any sequence of checkOut and recordText calls on a new LineLog, with
\* texts of one line at most and start on either side of rev.
SpecAnyRange == Init /\ [][NextAnyRange]_vars

\* recordText of a text of one line at most, with a timestamp, 0 or none
RecordStamped ==
    \E text \in ShortTexts, timestamp \in Timestamps : RecordText(text, timestamp, << >>)

NextStamped == RecordStamped

\* recordText calls with a timestamp, 0 or none.
SpecStamped == Init /\ [][NextStamped]_vars

NextRecord == RecordAny

\* Any sequence of recordText calls on a new LineLog.
SpecRecord == Init /\ [][NextRecord]_vars

NextExchange == RecordAny \/ Export \/ ImportFresh

\* recordText calls, with the LineLog exported and the buffer imported into
\* a new LineLog that replaces it.
SpecExchange == Init /\ [][NextExchange]_vars

NextImport == RecordPlain \/ CheckOutSnapshot \/ Export \/ ImportUsed

\* recordText and checkOut calls, with the LineLog exported and a buffer
\* imported into the LineLog in use.
SpecImport == Init /\ [][NextImport]_vars

\* recordText of a text of up to three lines
RecordLong == \E text \in LongTexts : RecordText(text, <<42>>, << >>)

NextBlocks == RecordLong \/ CheckOutSnapshot

\* recordText calls whose diffs have several blocks, and checkOut calls.
SpecBlocks == Init /\ [][NextBlocks]_vars

\* recordText of a text of one line at most, the exported buffer kept
RecordShortKeeping == \E text \in ShortTexts : RecordCall(text, <<42>>, << >>, TRUE)

\* checkOut(rev) for some rev, the exported buffer kept
CheckOutSnapshotKeeping == \E rev \in 0..(MaxRev + 1) : CheckOutCall(rev, << >>, TRUE)

NextReimport == RecordShortKeeping \/ Export \/ ImportUsed

\* recordText calls, with the LineLog exported at some time and the buffer
\* imported later into the LineLog in use.
SpecReimport == Init /\ [][NextReimport]_vars

\* buf = log.export(), once, right after a recordText of the first revision
ExportEarly ==
    /\ exported = << >>
    /\ maxRev = 1
    /\ call.op = "recordText"
    /\ Export

\* recordText of "" or "a", the exported buffer kept
RecordTinyKeeping ==
    \E text \in {t \in ShortTexts : Len(t) <= 1} : RecordCall(text, <<42>>, << >>, TRUE)

NextStale == RecordTinyKeeping \/ CheckOutSnapshotKeeping \/ ExportEarly \/ ImportUsed

\* recordText and checkOut calls, with the LineLog exported once, early, and
\* the buffer imported later into the LineLog in use.
SpecStale == Init /\ [][NextStale]_vars

\* ----------------------------------------- git object reader and importer

\* The reader object of the current state, before the step's callbacks run.
Reader ==
    [process |-> process, mtime |-> mtime, mutex |-> mutex, timers |-> timers,
     requests |-> requests, stdout |-> stdout, children |-> children,
     started |-> started, autos |-> << >>]

\* The next state holds the reader n; no more than MaxProcesses child
\* processes are spawned.
ReaderBecomes(n) ==
    /\ Len(n.children) <= MaxProcesses
    /\ process' = n.process
    /\ mtime' = n.mtime
    /\ mutex' = n.mutex
    /\ timers' = n.timers
    /\ requests' = n.requests
    /\ stdout' = n.stdout
    /\ children' = n.children
    /\ started' = n.started
    /\ autos' = n.autos

\* What the event loop ran last.
Event(op, proc) == [op |-> op, proc |-> proc]

\* The rest of the step once the reader's callbacks made it R: a promise
\* the importer awaits has settled and the importer runs to its next await,
\* or nobody awaits.
Continue(R) ==
    IF Records(R, importer)
    THEN LET info == CommitPathInfo(R, importer)
             timestamp == Milliseconds(info.commit.timestamp)
             called == [importer EXCEPT
                            !.events = Append(@, <<"recordText", info.commit.commit,
                                                   timestamp>>)]
             S == nextCommit(R, called, time)
         IN  /\ \E blocks \in diffLines(content, importer.text) :
                    Recorded(importer.text, <<timestamp>>, <<info>>, FALSE, time, blocks)
             /\ ReaderBecomes(S.reader)
             /\ importer' = S.importer
    ELSE IF Resumes(R, importer)
    THEN LET S == IF importer.pc = "catFile" /\ R.requests[importer.req].status = "resolved"
                  THEN afterCatFile(R, importer, time)
                  ELSE nextCommit(R, importer, time)
         IN  /\ ReaderBecomes(S.reader)
             /\ importer' = S.importer
             /\ UNCHANGED logVars
    ELSE /\ ReaderBecomes(R)
         /\ UNCHANGED importer
         /\ UNCHANGED logVars

\* The readObject calls a client of the reader makes: a commit, an
\* object the repository lacks, a commit expected to be a blob, and an
\* object the repository lacks read with no expected type.
Reads ==
    {<<CommitSpec("c1"), <<"commit">> >>,
     <<CommitSpec("cc"), <<"commit">> >>,
     <<CommitSpec("c1"), <<"blob">> >>,
     <<CommitSpec("cc"), << >> >>}

\* reader.readObject(spec, expectedType), called by a client that does not
\* wait for the requests it made before
ReadObject ==
    \E read \in Reads :
        /\ Len(requests) < MaxRequests
        /\ ReaderBecomes(readObject(Reader, read[1], read[2], time))
        /\ event' = Event("readObject", 0)
        /\ UNCHANGED <<time, importer>>
        /\ UNCHANGED logVars

\* reader.cleanUp(), called by a client
CleanUp ==
    /\ ReaderBecomes(cleanUp(Reader))
    /\ event' = Event("cleanUp", process)
    /\ UNCHANGED <<time, importer>>
    /\ UNCHANGED logVars

\* A clean-up timer that is due fires: autoCleanUp()
TimerFires ==
    \E k \in 1..Len(timers) :
        /\ timers[k] <= time
        /\ ReaderBecomes(
               autoCleanUp([Reader EXCEPT !.timers = SubSeq(@, 1, k - 1)
                                                      \o SubSeq(@, k + 1, Len(@))],
                           time))
        /\ event' = Event("timer", process)
        /\ UNCHANGED <<time, importer>>
        /\ UNCHANGED logVars

\* The stdout of a child process emits 'data' with some of what the child
\* wrote; with no listener the chunk is lost.
Data ==
    \E p \in 1..Len(children) :
        \E n \in 1..Len(stdout[p]) :
            LET R == [Reader EXCEPT !.stdout[p] = SubSeq(@, n + 1, Len(@))]
            IN  /\ children[p] # "closed"
                /\ Continue(emitData(R, Listeners(R, p), SubSeq(stdout[p], 1, n), time))
                /\ event' = Event("data", p)
                /\ UNCHANGED time

\* The stdout of a killed child process emits 'close'.
Close ==
    \E p \in 1..Len(children) :
        LET R == [Reader EXCEPT !.children[p] = "closed", !.stdout[p] = << >>]
        IN  /\ children[p] = "killed"
            /\ Continue(emitClose(R, Listeners(R, p), time))
            /\ event' = Event("close", p)
            /\ UNCHANGED time

\* Time passes, once the timers that are due have fired.
Tick ==
    /\ time + TickStep <= Epoch + MaxTicks * TickStep
    /\ \A k \in 1..Len(timers) : timers[k] > time
    /\ time' = time + TickStep
    /\ event' = Event("tick", 0)
    /\ UNCHANGED <<process, mtime, mutex, timers, requests, stdout, children,
                   started, autos, importer>>
    /\ UNCHANGED logVars

\* buildLineLogFromGitHistory(gitRoot, path) up to its first await in the
\* loop: logFile answered log, the reader is new, and the oldest commit is
\* taken.
Build ==
    \E log \in Histories :
        LET B == [NewImporter EXCEPT
                      !.log = log,
                      !.history = [i \in 1..Len(log) |-> CommitPath(Reverse(log)[i])]]
            S == nextCommit(NewGitObjectReader(time), B, time)
        IN  /\ importer.pc = "idle"
            /\ ReaderBecomes(S.reader)
            /\ importer' = S.importer
            /\ event' = Event("build", 0)
            /\ UNCHANGED time
            /\ UNCHANGED logVars

NextReader == ReadObject \/ CleanUp \/ TimerFires \/ Data \/ Close \/ Tick

\* A GitObjectReader used by clients that call readObject and cleanUp at
\* any time.
SpecReader == Init /\ [][NextReader]_vars

NextBuild == Build \/ TimerFires \/ Data \/ Close \/ Tick

\* One call of buildLineLogFromGitHistory.
SpecBuild == Init /\ [][NextBuild]_vars

\* ------------------------------------------------------------ properties

\* The lines execute(r, r) emits from program c, and whether it failed.
Snapshot(c, r) == execute(c, r, r, FALSE, {})

\* The text of revision r in program c.
SnapshotText(c, r) == reconstructContent(Snapshot(c, r).lines)

\* The last call was a recordText that returned.
AfterRecordText == call.op = "recordText" /\ failure = NoFailure

\* The last call was a recordText that returned from a change.
AfterChange == AfterRecordText /\ path \in {"trivial", "general"}

\* The last call was checkOut(rev, start) and returned.
AfterCheckOutRange == call.op = "checkOut" /\ call.start # << >> /\ failure = NoFailure

\* C1: in every state, for every recorded revision r >= 1, checkOut(r)
\* followed by reading content gives the text of the last recordText call
\* that returned r.
C1_CheckOutGivesRecordedText ==
    \A r \in 1..maxRev :
        LET out == checkOut(Self, r, << >>)
        IN  /\ r \in DOMAIN recorded
            /\ out.failure = NoFailure
            /\ out.content = recorded[r].text

\* C2: after every recordText(X) call, executing the program at
\* startRev = endRev = maxRev gives exactly X.  It is stated for the calls
\* that recorded a change; the call whose text equals content is C7's.
C2_LatestSnapshotIsRecordedText ==
    AfterChange =>
        /\ Snapshot(code, maxRev).failure = NoFailure
        /\ SnapshotText(code, maxRev) = call.text

\* C8: in every state content is the concatenation of the lines' data, and
\* right after recordText(X) both are X.
C8_ContentIsConcatenationOfLines ==
    /\ content = reconstructContent(lines)
    /\ AfterRecordText => content = call.text

\* The lines of a view that are not flagged deleted.
Kept(view) == SelectSeq(view, LAMBDA l : ~l.deleted)

\* The program counters of a view, in order.
Pcs(view) == [i \in 1..Len(view) |-> view[i].pc]

\* The set of the program counters of a view.
PcSet(view) == {view[i].pc : i \in 1..Len(view)}

\* The entries of sequence s that lie in set S, in order.
Restrict(s, S) == SelectSeq(s, LAMBDA x : x \in S)

\* C3: after checkOut(rev, start) with start <= rev, the data of the lines
\* whose deleted flag is false concatenate to the snapshot text of rev.
C3_KeptLinesAreTheSnapshot ==
    (AfterCheckOutRange /\ call.start[1] <= lastCheckoutRev) =>
        /\ Snapshot(code, lastCheckoutRev).failure = NoFailure
        /\ reconstructContent(Kept(lines)) = SnapshotText(code, lastCheckoutRev)

\* C4: after checkOut(rev, start) with start < rev, lines holds exactly the
\* lines (and the sentinel) of the snapshots of the revisions start..rev,
\* each once and in the order every one of these snapshots has them, and a
\* line is flagged deleted exactly when the snapshot of rev lacks it.
C4_RangeViewIsTheUnionOfSnapshots ==
    (AfterCheckOutRange /\ call.start[1] < lastCheckoutRev) =>
        LET revs == call.start[1]..lastCheckoutRev
            snap(r) == Snapshot(code, r)
        IN  /\ \A r \in revs : snap(r).failure = NoFailure
            /\ PcSet(lines) = UNION {PcSet(snap(r).lines) : r \in revs}
            /\ Cardinality(PcSet(lines)) = Len(lines)
            /\ \A r \in revs :
                   Restrict(Pcs(lines), PcSet(snap(r).lines)) = Pcs(snap(r).lines)
            /\ \A i \in 1..Len(lines) :
                   lines[i].deleted <=> lines[i].pc \notin PcSet(snap(lastCheckoutRev).lines)

\* The last call was new LineLog().import(buf) of an exported buffer.
AfterImportFresh == call.op = "importFresh" /\ exported # << >>

\* The two LineLogs have the same maxRev and, for every revision r up to it,
\* the same content after checkOut(r) and the same getLineTimestamp(i) and
\* getLineExtra(i) at every index i, the sentinel's and one beyond included.
SameAnswers(x, y) ==
    /\ x.maxRev = y.maxRev
    /\ \A r \in 0..x.maxRev :
           LET vx == checkOut(x, r, << >>)
               vy == checkOut(y, r, << >>)
           IN  /\ vx.failure = NoFailure
               /\ vy.failure = NoFailure
               /\ vx.content = vy.content
               /\ \A i \in 0..Len(vx.lines) :
                      /\ getLineTimestamp(vx, i) = getLineTimestamp(vy, i)
                      /\ getLineExtra(vx, i) = getLineExtra(vy, i)

\* C5: a new LineLog that imports L.export(), L reached by recordText calls,
\* has L's maxRev and, for every revision r in 0..maxRev, L's content after
\* checkOut(r) and L's getLineTimestamp(i) and getLineExtra(i) for every i.
C5_ImportOfExportAnswersAlike ==
    AfterImportFresh => SameAnswers(exported[1].from, Self)

\* C5's case: a LineLog with two revisions, lines of both in the latest text,
\* a timestamp and an extra went through export and import.
C5_Witness ==
    /\ AfterImportFresh
    /\ maxRev >= 2
    /\ DOMAIN extraMap # {}
    /\ Len(lines) >= 3
    /\ lines[1].rev # lines[2].rev
    /\ getLineExtra(Self, 0) # getLineExtra(Self, 1)

\* The revs of a view's lines, in order.
Revs(view) == [i \in 1..Len(view) |-> view[i].rev]

RECURSIVE Blame(_, _, _)
\* The revs of the lines of the new text, from the revs of the old text's
\* lines (the sentinel's last) and the diff: a line in the b-range of a block
\* is introduced by rev, any other line is carried over with its rev.
Blame(revs, blocks, rev) ==
    IF blocks = << >> THEN revs
    ELSE LET b == blocks[Len(blocks)]
         IN  Blame(SubSeq(revs, 1, b[1]) \o [i \in 1..(b[4] - b[3]) |-> rev]
                       \o SubSeq(revs, b[2] + 1, Len(revs)),
                   SubSeq(blocks, 1, Len(blocks) - 1), rev)

\* The timestamp the last recordText call that returned rev recorded.
Stamp(rev) == TsOf(recorded[rev].timestamp, recorded[rev].now)

\* lines is the latest snapshot, and getLineTimestamp(i) is the timestamp
\* recorded for the rev of line i.
BlameView ==
    /\ failure = NoFailure
    /\ lines = Snapshot(code, maxRev).lines
    /\ content = reconstructContent(lines)
    /\ \A i \in 0..(Len(lines) - 2) :
           /\ lines[i + 1].rev \in DOMAIN recorded
           /\ getLineTimestamp(Self, i) = <<Stamp(lines[i + 1].rev)>>

\* A recordText call gives the lines it introduces the rev it returns and
\* leaves the other lines their rev.
BlameStep ==
    (call'.op = "recordText" /\ path' # "unchanged") =>
        Revs(lines') = Blame(Revs(lines), call'.blocks, ret')

\* C6: after any sequence of recordText calls, each line of the latest
\* snapshot but the sentinel has the rev of the recordText call that
\* introduced it (a line the diff carries over keeps its rev), and
\* getLineTimestamp(i) is the timestamp recorded for that rev.
C6_LinesCarryTheirRevision == [][BlameStep]_vars /\ []BlameView

\* C6's case: the latest text has lines of two revisions with different
\* timestamps.
C6_Witness ==
    /\ call.op = "recordText"
    /\ maxRev >= 2
    /\ Len(lines) >= 3
    /\ lines[1].rev # lines[2].rev
    /\ getLineTimestamp(Self, 0) # getLineTimestamp(Self, 1)

\* C7: recordText(X) with X equal to content returns maxRev and leaves code,
\* tsMap, extraMap, maxRev, lastCheckoutRev, lines and content as they are,
\* whatever timestamp and extra it is given.
C7_UnchangedTextIsANoOp ==
    [][(call'.op = "recordText" /\ call'.text = content) =>
           /\ failure' = NoFailure
           /\ ret' = maxRev
           /\ UNCHANGED <<code, tsMap, extraMap, maxRev, lastCheckoutRev,
                          lines, content>>]_vars

\* C7's case: recordText(X, null, extra) was called with X the content that
\* had been recorded with another timestamp and no extra.
C7_Witness ==
    /\ call.op = "recordText"
    /\ path = "unchanged"
    /\ call.text = content
    /\ maxRev >= 1
    /\ call.extra # << >>
    /\ call.timestamp = << >>
    /\ maxRev \notin DOMAIN extraMap
    /\ tsMap[maxRev] # TsOf(call.timestamp, 1000)

\* What a recordText call returns and does to maxRev, by the path it took.
RevisionStep ==
    (call'.op = "recordText") =>
        /\ failure' = NoFailure
        /\ maxRev' >= maxRev
        /\ path' = "general" => (ret' = maxRev + 1 /\ maxRev' = maxRev + 1)
        /\ path' \in {"unchanged", "trivial"} => (ret' = maxRev /\ maxRev' = maxRev)

\* C9: after any number of recordText calls maxRev is the number of calls
\* that took the non-trivial change; each of them returns the previous
\* maxRev + 1, a call with unchanged text or a trivial change returns maxRev
\* and leaves it, and maxRev never decreases.
C9_MaxRevCountsGeneralCalls ==
    [][RevisionStep]_vars /\ [](maxRev = generalCalls)

\* C9's case: after two non-trivial changes a trivial change returned.
C9_Witness ==
    /\ call.op = "recordText"
    /\ path = "trivial"
    /\ ret = 2
    /\ generalCalls = 2

\* The revs the JGE and JL instructions of program c carry.
JumpRevs(c) == {c[i].rev : i \in {j \in 1..Len(c) : c[j].op \in {JGE, JL}}}

Sentinel(pc) == LineInfo(<< >>, 0, pc, FALSE)

\* C11: a new LineLog has maxRev = 0, content = "" and the sentinel as its
\* only line; and in every reachable state checkOut(0) leaves content = "".
C11_NewAndRevisionZeroAreEmpty ==
    /\ call.op = "new" =>
           (maxRev = 0 /\ content = << >> /\ lines = <<Sentinel(0)>>)
    /\ LET out == checkOut(Self, 0, << >>)
       IN  out.failure = NoFailure /\ out.content = << >>

\* The diff is one block that replaces one line by one line, and in the
\* latest snapshot the replaced line is the only line of revision maxRev.
OneLineOfLatestReplaced(blocks) ==
    LET view == checkOut(Self, maxRev, << >>).lines
    IN  /\ Len(blocks) = 1
        /\ blocks[1][2] - blocks[1][1] = 1
        /\ blocks[1][4] - blocks[1][3] = 1
        /\ blocks[1][1] < Len(view)
        /\ view[blocks[1][1] + 1].rev = maxRev
        /\ Cardinality({i \in 1..Len(view) : view[i].rev = maxRev}) = 1

\* What such a recordText call does: it returns maxRev, adds no instruction,
\* rewrites the data of the replaced line's LINE instruction and nothing
\* else of the program, and sets tsMap[maxRev] to the new timestamp.
RewritesInPlace ==
    LET b == call'.blocks[1]
        at == checkOut(Self, maxRev, << >>).lines[b[1] + 1].pc + 1
        newLine == splitLines(call'.text)[b[3] + 1]
    IN  /\ failure' = NoFailure
        /\ ret' = maxRev
        /\ maxRev' = maxRev
        /\ Len(code') = Len(code)
        /\ code[at].op = LINE
        /\ code' = [code EXCEPT ![at].data = newLine]
        /\ \E now \in Clock :
               tsMap' = Put(tsMap, maxRev, TsOf(call'.timestamp, now))

\* C12: when the diff yields exactly one block replacing one line by one
\* line, the replaced line has revision maxRev and is the only line of the
\* current snapshot with that revision, recordText returns maxRev unchanged,
\* leaves the length of code and every instruction but that LINE's data as
\* they are, and overwrites tsMap[maxRev] with the new timestamp.
C12_TrivialChangeRewritesInPlace ==
    [][(/\ call'.op = "recordText"
        /\ call'.text # content
        /\ OneLineOfLatestReplaced(call'.blocks)) => RewritesInPlace]_vars

\* C12's case: the only line of revision 2, one of two lines, was rewritten
\* by a call without a timestamp, which left the clock's time in tsMap.
C12_Witness ==
    /\ call.op = "recordText"
    /\ path = "trivial"
    /\ ret = 2
    /\ Len(lines) >= 3
    /\ call.timestamp = << >>
    /\ tsMap[2] \in Clock

\* C13: whenever recordText(text, ts, extra) is called with text different
\* from content and an extra, then after the call extraMap[returned rev] is
\* that extra, and getLineExtra returns it for the lines of that revision.
C13_ExtraIsRecorded ==
    (/\ call.op = "recordText"
     /\ failure = NoFailure
     /\ path # "unchanged"
     /\ call.extra # << >>) =>
        /\ ret \in DOMAIN extraMap
        /\ extraMap[ret] = call.extra[1]
        /\ \A i \in 0..(Len(lines) - 2) :
               lines[i + 1].rev = ret => getLineExtra(Self, i) = call.extra[1]

\* The last call was checkOut(0) and returned.
AfterCheckOutZero ==
    /\ call.op = "checkOut"
    /\ call.start = << >>
    /\ lastCheckoutRev = 0
    /\ failure = NoFailure

\* The line indexes a caller may ask about: every line, the sentinel and two
\* positions beyond it.
Indexes == 0..(Len(lines) + 1)

\* At the sentinel position and beyond, the timestamp is 0 and the extra is
\* the empty object.
BoundsRule ==
    \A i \in Indexes :
        i >= Len(lines) - 1 =>
            getLineTimestamp(Self, i) = <<0>> /\ getLineExtra(Self, i) = EmptyObject

\* A line whose revision has no recorded extra has the empty object as extra.
NoExtraIsEmpty ==
    \A i \in 0..(Len(lines) - 2) :
        lines[i + 1].rev \notin DOMAIN extraMap => getLineExtra(Self, i) = EmptyObject

\* When revision 0 is checked out, every index answers 0 and the empty object.
RevisionZeroAnswersNothing ==
    AfterCheckOutZero =>
        \A i \in Indexes :
            getLineTimestamp(Self, i) = <<0>> /\ getLineExtra(Self, i) = EmptyObject

\* C14: getLineTimestamp(i) is 0 and getLineExtra(i) is the empty object
\* whenever i >= len(lines) - 1, in particular for every i when revision 0 is
\* checked out; getLineExtra is also the empty object for a line whose
\* revision has no recorded extra.
C14_OutOfRangeAnswersNothing ==
    /\ BoundsRule
    /\ NoExtraIsEmpty
    /\ RevisionZeroAnswersNothing

\* The start arguments of checkOut: none, or a revision up to maxRev.
Starts == {<< >>} \cup {<<r>> : r \in 0..maxRev}

\* Every line of the view before its last entry has a defined timestamp.
TimestampsDefined(s) ==
    \A i \in 0..(Len(s.lines) - 2) : getLineTimestamp(s, i) # Undefined

\* C15: in every state reachable by recordText and checkOut calls, tsMap[r]
\* is defined for every r in 1..maxRev, so getLineTimestamp(i) is defined for
\* every non-sentinel line of the current view and of every snapshot or range
\* view checkOut can produce.
C15_TimestampsAreDefined ==
    /\ \A r \in 1..maxRev : r \in DOMAIN tsMap /\ tsMap[r] \in Nat \ {0}
    /\ TimestampsDefined(Self)
    /\ \A rev \in 0..maxRev, start \in Starts :
           LET view == checkOut(Self, rev, start)
           IN  view.failure = NoFailure => TimestampsDefined(view)

\* A range view over three revisions holds lines of several revisions, each
\* with its timestamp.
C15_Witness ==
    /\ call.op = "checkOut"
    /\ call.start # << >>
    /\ failure = NoFailure
    /\ maxRev = 3
    /\ Len(lines) >= 3
    /\ \E i, j \in 0..(Len(lines) - 2) :
           /\ lines[i + 1].rev # lines[j + 1].rev
           /\ getLineTimestamp(Self, i) = <<42>>
           /\ getLineTimestamp(Self, j) = <<42>>

\* checkOut(rev, start) as it runs the interpreter, whatever was checked out
\* before.
FreshCheckOut(rev, start) == checkOut([Self EXCEPT !.lastCheckoutRev = -1], rev, start)

\* C16: for every reachable program and every (start, rev) checkOut can pass,
\* the interpreter reaches END within 2 * len(code) steps: the failure
\* "bug: code does not end in time" does not happen.
C16_ExecutionEndsInTime ==
    \A rev \in 0..maxRev, start \in Starts :
        FreshCheckOut(rev, start).failure # "bug: code does not end in time"

\* C17: for every sequence of public calls, recordText raises no failure:
\* every chunk handed to editChunk is within lines, and the trivial path
\* finds a LINE instruction at the line's pc.
C17_RecordTextNeverFails ==
    call.op = "recordText" => failure = NoFailure

\* C18: a recordText call that assigns a new revision completes all of its
\* block edits: after every call, failed ones included, tsMap and extraMap
\* are defined for no revision greater than maxRev, and a failed recordText
\* leaves the program as it was.
C18_RecordTextIsAllOrNothing ==
    [][/\ (DOMAIN tsMap' \cup DOMAIN extraMap') \subseteq 1..maxRev'
       /\ (call'.op = "recordText" /\ failure' # NoFailure) => code' = code]_vars

\* The entry of lines at 0-based position i is a LINE instruction's line.
IsLineEntry(i) ==
    LET l == lines[i + 1]
    IN  /\ l.rev >= 1
        /\ l.pc < Len(code)
        /\ code[l.pc + 1].op = LINE

\* The last entry of lines is the sentinel, pointing at an END instruction.
EndsWithSentinel ==
    LET l == lines[Len(lines)]
    IN  /\ l.data = << >>
        /\ l.rev = 0
        /\ l.pc < Len(code)
        /\ code[l.pc + 1].op = END

\* C19: in every reachable state lines is non-empty, its last entry is the
\* sentinel (data "", rev 0, pc at an END instruction) and every other entry
\* is the line of a LINE instruction with rev >= 1.
C19_LinesEndWithTheSentinel ==
    /\ Len(lines) >= 1
    /\ EndsWithSentinel
    /\ \A i \in 0..(Len(lines) - 2) : IsLineEntry(i)

\* The last call was checkOut(r) without start and returned.
AfterCheckOutSnapshot ==
    /\ call.op = "checkOut"
    /\ call.start = << >>
    /\ failure = NoFailure

\* C20: checkOut(r) without start always leaves lines and content equal to
\* what a fresh execution at (r, r) gives, also when it returns early because
\* r is lastCheckoutRev.
C20_CheckOutEqualsFreshExecution ==
    AfterCheckOutSnapshot =>
        LET fresh == Snapshot(code, lastCheckoutRev)
        IN  /\ fresh.failure = NoFailure
            /\ lines = fresh.lines
            /\ content = reconstructContent(fresh.lines)

\* The view is the snapshot of the latest revision.
ViewIsLatestSnapshot ==
    LET snap == Snapshot(code, maxRev)
    IN  /\ snap.failure = NoFailure
        /\ lines = snap.lines
        /\ content = reconstructContent(snap.lines)

\* C21: after recordText takes the general path from a state whose view is
\* the maxRev snapshot, the resliced lines (data, rev, pc and deleted of every
\* entry) are the lines that executing the updated program at
\* (maxRev, maxRev) gives.
C21_ReslicedLinesAreTheExecution ==
    [][(/\ ViewIsLatestSnapshot
        /\ call'.op = "recordText"
        /\ path' = "general"
        /\ failure' = NoFailure) =>
            LET snap == Snapshot(code', maxRev')
            IN  snap.failure = NoFailure /\ lines' = snap.lines]_vars

\* A general change that inserted a line in front of a line that stays.
C21_Witness ==
    /\ call.op = "recordText"
    /\ path = "general"
    /\ failure = NoFailure
    /\ ViewIsLatestSnapshot
    /\ \E k \in 1..Len(call.blocks) :
           LET b == call.blocks[k]
           IN  b[1] = b[2] /\ b[4] > b[3] /\ Len(lines) >= b[1] + (b[4] - b[3]) + 2

\* What program c yields for revision r: the failure execute(r, r) throws,
\* or the (data, rev) of the lines it returns.
Yield(c, r) ==
    LET snap == Snapshot(c, r)
    IN  IF snap.failure # NoFailure
        THEN [failure |-> snap.failure, lines |-> << >>]
        ELSE [failure |-> NoFailure,
              lines |-> [i \in 1..Len(snap.lines) |->
                             <<snap.lines[i].data, snap.lines[i].rev>>]]

\* C22: a recordText call that returns revision n does not change what the
\* program yields for any earlier revision: for every r < n, execute(r, r)
\* gives the same sequence of (data, rev) before and after the call.
C22_EarlierRevisionsAreKept ==
    [][(call'.op = "recordText" /\ failure' = NoFailure) =>
           \A r \in 0..(ret' - 1) : Yield(code', r) = Yield(code, r)]_vars

\* A third revision was recorded over two earlier ones of different texts.
C22_Witness ==
    /\ call.op = "recordText"
    /\ path = "general"
    /\ failure = NoFailure
    /\ ret = 3
    /\ SnapshotText(code, 1) # << >>
    /\ SnapshotText(code, 2) # << >>
    /\ SnapshotText(code, 1) # SnapshotText(code, 2)
    /\ SnapshotText(code, 2) # SnapshotText(code, 3)

\* C23: after the constructor, after any recordText call and after any
\* checkOut without a start, every entry of lines has deleted = false.
C23_DeletedOnlyInRangeViews ==
    (/\ failure = NoFailure
     /\ \/ call.op \in {"new", "recordText"}
        \/ call.op = "checkOut" /\ call.start = << >>) =>
        \A i \in 1..Len(lines) : ~lines[i].deleted

\* The last call was import(buf), on a new LineLog or on the one in use.
AfterImport == call.op \in {"import", "importFresh"}

\* C24: after import(buf) on any LineLog, new or used at any checked-out
\* revision, maxRev is recomputed from the imported program, and lines and
\* content are the snapshot of the imported program at that maxRev.
C24_ImportPrimesTheCaches ==
    AfterImport =>
        LET snap == Snapshot(code, maxRev)
        IN  /\ failure = NoFailure
            /\ maxRev = MaxOf(JumpRevs(code) \cup {0})
            /\ snap.failure = NoFailure
            /\ lines = snap.lines
            /\ content = reconstructContent(snap.lines)

\* The last call was checkOut(r) or checkOut(r, start) with r > maxRev, made
\* in state before, and it ended in state after.
ClampedLike(before, after, start) ==
    LET atMax == checkOut(before, before.maxRev, start)
    IN  /\ after.lastCheckoutRev = before.maxRev
        /\ after.failure = atMax.failure
        /\ after.lines = atMax.lines
        /\ after.content = atMax.content
        /\ after.code = atMax.code

\* C25: checkOut(r) with r > maxRev behaves exactly as checkOut(maxRev): it
\* leaves lastCheckoutRev = maxRev and the maxRev snapshot in lines and
\* content, and the same holds with a start argument.
C25_CheckOutClampsTheRevision ==
    \A r \in (maxRev + 1)..(MaxRev + 1), start \in Starts :
        LET after == checkOut(Self, r, start)
        IN  /\ ClampedLike(Self, after, start)
            /\ after.failure = NoFailure =>
                   LET snap == Snapshot(code, maxRev)
                   IN  start = << >> =>
                           /\ snap.failure = NoFailure
                           /\ after.lines = snap.lines
                           /\ after.content = reconstructContent(snap.lines)

\* What the general edit path appends for the block b = [a1, a2, b1, b2] with
\* the new lines newData, from program c and the view, and what it overwrites.
EditedProgram(c, view, b, rev, newData) ==
    LET a1 == b[1]
        a2 == b[2]
        start == Len(c)
        n == Len(newData)
        a1Pc == view[a1 + 1].pc
        original == c[a1Pc + 1]
        inserted == IF n > 0
                    THEN <<[op |-> JL, rev |-> rev, pc |-> start + n + 1, data |-> << >>]>>
                         \o [i \in 1..n |->
                                [op |-> LINE, rev |-> rev, pc |-> 0, data |-> newData[i]]]
                    ELSE << >>
        removed == IF a1 < a2
                   THEN <<[op |-> JGE, rev |-> rev, pc |-> view[a2].pc + 1, data |-> << >>]>>
                   ELSE << >>
        fallThrough == IF original.op \notin {J, END}
                       THEN <<[op |-> J, rev |-> 0, pc |-> a1Pc + 1, data |-> << >>]>>
                       ELSE << >>
        appended == inserted \o removed \o <<original>> \o fallThrough
    IN  [(c \o appended) EXCEPT ![a1Pc + 1] =
             [op |-> J, rev |-> 0, pc |-> start, data |-> << >>]]

RECURSIVE EditedByBlocks(_, _, _, _, _)
\* The program after the blocks, taken in the given order, are applied.
EditedByBlocks(c, view, blocks, rev, newLines) ==
    IF blocks = << >> THEN c
    ELSE LET b == Head(blocks)
         IN  EditedByBlocks(EditedProgram(c, view, b, rev, Slice(newLines, b[3], b[4])),
                            view, Tail(blocks), rev, newLines)

\* C26: for each block with n inserted lines the general edit path, with
\* start = len(code) at entry, appends JL{rev, start+n+1} and n LINE{rev}
\* iff n > 0, then JGE{rev, lines[a2-1].pc + 1} iff a1 < a2, then a copy of
\* the instruction at a1Pc, then J{a1Pc + 1} iff that instruction was neither
\* J nor END, and overwrites code[a1Pc] with J{start}.
C26_EditChunkAppendsTheChunk ==
    [][(/\ call'.op = "recordText"
        /\ path' = "general"
        /\ failure' = NoFailure) =>
           code' = EditedByBlocks(code, checkOut(Self, maxRev, << >>).lines,
                                  Reverse(call'.blocks), maxRev + 1,
                                  splitLines(call'.text))]_vars

\* A block that replaced a line by another: JL, LINE, JGE, the copy of the
\* replaced LINE and the J after it were appended.
C26_Witness ==
    /\ call.op = "recordText"
    /\ path = "general"
    /\ failure = NoFailure
    /\ Len(call.blocks) = 1
    /\ call.blocks[1][1] < call.blocks[1][2]
    /\ call.blocks[1][3] < call.blocks[1][4]
    /\ Len(code) >= 5
    /\ code[Len(code)].op = J
    /\ code[Len(code) - 1].op = LINE
    /\ code[Len(code) - 2].op = JGE
    /\ code[Len(code) - 3].op = LINE
    /\ code[Len(code) - 4].op = JL

\* The indexes of the instructions of the program that the step changed.
Changed == {i \in 1..Min(Len(code), Len(code')) : code'[i] # code[i]}

\* The step changed nothing but the data of one LINE instruction (which the
\* new data may equal).
OneLineRewritten ==
    /\ Len(code') = Len(code)
    /\ \E i \in 1..Len(code) :
           /\ Changed \subseteq {i}
           /\ code[i].op = LINE
           /\ code' = [code EXCEPT ![i].data = code'[i].data]

\* The step changed one instruction per block, each into a jump to what the
\* step appended, and no other.
OneRedirectPerBlock ==
    /\ Len(code') > Len(code)
    /\ Cardinality(Changed) = Len(call'.blocks)
    /\ \A i \in Changed :
           /\ code'[i].op = J
           /\ code'[i].pc >= Len(code)
           /\ code'[i].pc < Len(code')

\* C27: each block edit changes exactly one instruction that was there
\* (code[a1Pc], into J{start}) and the trivial change only the data of one
\* LINE; every other instruction keeps its index and contents, len(code)
\* never decreases under recordText or checkOut, and checkOut changes no
\* instruction at all.
C27_ProgramIsAppendMostly ==
    [][/\ call'.op = "checkOut" => code' = code
       /\ call'.op = "recordText" =>
              /\ Len(code') >= Len(code)
              /\ (failure' = NoFailure /\ path' = "unchanged") => code' = code
              /\ (failure' = NoFailure /\ path' = "trivial") => OneLineRewritten
              /\ (failure' = NoFailure /\ path' = "general") => OneRedirectPerBlock]_vars

\* A general change was made to a program of three revisions, and a trivial
\* change can follow it.
C27_Witness ==
    /\ call.op = "recordText"
    /\ path = "general"
    /\ failure = NoFailure
    /\ maxRev = 3
    /\ Len(code) >= 12
    /\ Cardinality({i \in 1..Len(lines) : lines[i].rev = maxRev}) = 1

\* The LineLog after the first k of the step's blocks, taken from the last
\* to the first, were applied to the view recordText edits.
AfterBlocks(k) ==
    ApplyBlocks([checkOut(Self, maxRev, << >>) EXCEPT !.path = "general"],
                SubSeq(Reverse(call'.blocks), 1, k), maxRev + 1,
                splitLines(call'.text))

\* Line i (0-based) of the LineLog s is line i of the view before the edit,
\* and its pc still addresses its instruction.
StillTheLine(s, i) ==
    LET before == AfterBlocks(0).lines[i + 1]
        now == s.lines[i + 1]
    IN  /\ now = before
        /\ now.pc < Len(s.code)
        /\ IF i = Len(AfterBlocks(0).lines) - 1
           THEN s.code[now.pc + 1].op = END
           ELSE /\ s.code[now.pc + 1].op = LINE
                /\ s.code[now.pc + 1].data = now.data
                /\ s.code[now.pc + 1].rev = now.rev

\* C28: the blocks of a diff are applied from the largest a1 to the smallest,
\* and applying a block leaves lines[0..a1) untouched, so the a1 and a2
\* of the blocks still to be applied refer to the same lines of the snapshot
\* before the edit, and the pcs of those lines still address their
\* instructions.
C28_BlocksAreAppliedLastFirst ==
    [][(/\ ViewIsLatestSnapshot
        /\ call'.op = "recordText"
        /\ path' = "general"
        /\ failure' = NoFailure) =>
           LET n == Len(call'.blocks)
               blocks == Reverse(call'.blocks)
           IN  /\ \A k \in 1..(n - 1) : blocks[k][1] > blocks[k + 1][2]
               /\ code' = AfterBlocks(n).code
               /\ lines' = AfterBlocks(n).lines
               /\ \A k \in 1..n :
                      /\ AfterBlocks(k).failure = NoFailure
                      /\ \A i \in 0..(blocks[k][1] - 1) : StillTheLine(AfterBlocks(k), i)
                      /\ \A j \in (k + 1)..n :
                             \A i \in (blocks[j][1])..(blocks[j][2]) :
                                 StillTheLine(AfterBlocks(k), i)]_vars

\* A diff of two blocks was applied: a line before and a line after a kept
\* line were replaced, removed or inserted.
C28_Witness ==
    /\ call.op = "recordText"
    /\ path = "general"
    /\ failure = NoFailure
    /\ Len(call.blocks) = 2
    /\ call.blocks[1][2] < call.blocks[2][1]
    /\ maxRev >= 2

\* The addresses of the program.
Addresses == 0..(Len(code) - 1)

\* C29: in every reachable state every J, JGE and JL target and every
\* lines[i].pc lies in [0, len(code)), and no LINE instruction is the last
\* instruction of the program.
C29_ProgramCountersAreAddresses ==
    /\ \A i \in 1..Len(code) :
           code[i].op \in {J, JGE, JL} => code[i].pc \in Addresses
    /\ \A i \in 1..Len(lines) : lines[i].pc \in Addresses
    /\ code[Len(code)].op # LINE

\* C30: recordText called with the timestamp absent or 0, on the general
\* path and on the trivial path alike, stores the current time in tsMap[rev]
\* and never 0; a non-zero timestamp is stored as given.
C30_ZeroTimestampIsAbsent ==
    AfterChange =>
        /\ ret \in DOMAIN tsMap
        /\ tsMap[ret] # 0
        /\ IF call.timestamp \in {<< >>, <<0>>}
           THEN tsMap[ret] \in Clock /\ tsMap[ret] = recorded[ret].now
           ELSE tsMap[ret] = call.timestamp[1]

\* A trivial change with timestamp 0 stored the time of the clock.
C30_Witness ==
    /\ AfterChange
    /\ path = "trivial"
    /\ call.timestamp = <<0>>
    /\ tsMap[ret] \in Clock

\* The revisions execute can be given: those of the program and one beyond.
AnyRev == 0..(MaxRev + 1)

\* The program counters of the lines are pairwise different.
EmittedOnce(ls) ==
    \A i, j \in 1..Len(ls) : ls[i].pc = ls[j].pc => i = j

\* execute(startRev, endRev) visits no program counter twice.  The program
\* counter is all the state the loop's control depends on, so an execution
\* that comes back to one never ends: visiting none twice is ending within
\* len(code) steps.
VisitsEachOnce(c, startRev, endRev) ==
    LET x == execute(c, startRev, endRev, FALSE, {})
    IN  /\ x.failure = NoFailure
        /\ x.steps <= Len(c)
        /\ EmittedOnce(x.lines)

\* C31: in any execution of a program built by recordText calls, for any
\* (startRev, endRev), no program counter is visited twice: no LINE is
\* emitted more than once and the steps never exceed len(code).
C31_NoProgramCounterTwice ==
    \A startRev \in AnyRev, endRev \in AnyRev : VisitsEachOnce(code, startRev, endRev)

\* The 0-based addresses of the END instructions of program c.
Ends(c) == {i \in 0..(Len(c) - 1) : c[i + 1].op = END}

\* execute(startRev, endRev) halts on an END instruction.
HaltsOnEnd(c, startRev, endRev) ==
    LET x == execute(c, startRev, endRev, FALSE, {})
    IN  /\ x.failure = NoFailure
        /\ Len(x.lines) >= 1
        /\ x.lines[Len(x.lines)].pc \in Ends(c)

\* C32: in every reachable state the program has exactly one END
\* instruction, every execution halts on it, and the sentinel entry of
\* lines has deleted false, in range views as in snapshots.
C32_OneEndAndItsSentinel ==
    /\ Cardinality(Ends(code)) = 1
    /\ \A startRev \in AnyRev, endRev \in AnyRev : HaltsOnEnd(code, startRev, endRev)
    /\ Len(lines) >= 1
    /\ lines[Len(lines)].pc \in Ends(code)
    /\ ~lines[Len(lines)].deleted

\* C33: checkOut(rev, start) with start equal to rev yields the lines of a
\* fresh snapshot execution of rev: the same lines in the same order, each
\* with deleted false.
C33_RangeFromItselfIsTheSnapshot ==
    [][\A rev \in AnyRev :
           (/\ call'.op = "checkOut"
            /\ call'.start = <<rev>>
            /\ failure' = NoFailure
            /\ CheckOut(rev, <<rev>>)) =>
               LET fresh == Snapshot(code', Min(rev, maxRev'))
               IN  /\ fresh.failure = NoFailure
                   /\ lines' = fresh.lines
                   /\ \A i \in 1..Len(lines') : ~lines'[i].deleted]_vars

\* checkOut(2, 2) gave a view of two entries where the view before was
\* another one.
C33_Witness ==
    /\ call.op = "checkOut"
    /\ call.start = <<2>>
    /\ lastCheckoutRev = 2
    /\ failure = NoFailure
    /\ Len(lines) = 2
    /\ maxRev = 3

\* The importer has returned.
Done == importer.pc = "done"

\* Both objects of a commit of the history can be read.
Readable(entry) ==
    /\ Object(BlobSpec(entry.commit, entry.path)).type = "blob"
    /\ Object(CommitSpec(entry.commit)).type = "commit"

IsRecordText(e) == e[1] = "recordText"

IsCatFile(e) == e[1] = "catFile"

\* The commits named by a sequence of events, or of entries of the history.
EventCommits(es) == [i \in 1..Len(es) |-> es[i][2]]

EntryCommits(entries) == [i \in 1..Len(entries) |-> entries[i].commit]

\* s is a prefix of t.
IsPrefix(s, t) == Len(s) <= Len(t) /\ s = SubSeq(t, 1, Len(s))

\* The recordText calls made so far name the readable commits, oldest first.
RecordedSoFar ==
    IsPrefix(EventCommits(SelectSeq(importer.events, IsRecordText)),
             EntryCommits(SelectSeq(importer.history, Readable)))

\* C34: when reading a commit's blob or its commit object fails, no
\* recordText is made for that commit and the loop goes on with the next
\* commit: the returned LineLog holds the commits that were read, in order.
C34_UnreadableCommitsAreSkipped ==
    /\ RecordedSoFar
    /\ Done =>
           LET read == SelectSeq(importer.history, Readable)
           IN  /\ EventCommits(SelectSeq(importer.events, IsRecordText)) = EntryCommits(read)
               /\ EventCommits(SelectSeq(importer.events, IsCatFile))
                      = EntryCommits(importer.history)
               /\ content = IF read = << >>
                            THEN << >>
                            ELSE Object(BlobSpec(read[Len(read)].commit,
                                                 read[Len(read)].path)).bytes
               /\ failure = NoFailure

\* The importer returned after a commit it could not read and a commit it
\* read after that one.
C34_Witness ==
    /\ Done
    /\ Len(importer.history) = 2
    /\ ~Readable(importer.history[1])
    /\ Readable(importer.history[2])
    /\ maxRev = 1
    /\ content # << >>

\* The seconds in the author line of a commit of the repository.
AuthorSeconds(commit) ==
    IF commit = "c1" THEN 1 ELSE IF commit = "c2" THEN 2
    ELSE IF commit = "cb" THEN 3 ELSE 0

RECURSIVE CallsFor(_)
\* The calls the importer makes for the entries of a history, oldest first.
CallsFor(entries) ==
    IF entries = << >>
    THEN << <<"cleanUp">> >>
    ELSE LET entry == Head(entries)
             c == entry.commit
         IN  (IF Object(BlobSpec(c, entry.path)).type # "blob"
              THEN << <<"catFile", c>> >>
              ELSE IF Object(CommitSpec(c)).type # "commit"
              THEN << <<"catFile", c>>, <<"getCommit", c>> >>
              ELSE << <<"catFile", c>>, <<"getCommit", c>>,
                      <<"recordText", c, AuthorSeconds(c) * 1000>> >>)
             \o CallsFor(Tail(entries))

\* The requests of the reader that have not settled.
Unsettled == {i \in 1..Len(requests) : requests[i].status \in {"waiting", "reading"}}

\* C35: the importer calls recordText one commit at a time, oldest commit
\* first (the reverse of the log), starts no read of a commit before the
\* recordText of the commit before has returned, and passes the commit's
\* timestamp in seconds multiplied by 1000.
C35_OneCommitAtATimeOldestFirst ==
    /\ importer.history = [i \in 1..Len(importer.log) |->
                               CommitPath(importer.log[Len(importer.log) + 1 - i])]
    /\ IsPrefix(importer.events, CallsFor(importer.history))
    /\ Cardinality(Unsettled) <= 1
    /\ (importer.pc # "idle" /\ call.op = "recordText") =>
           LET calls == SelectSeq(importer.events, IsRecordText)
           IN  /\ calls # << >>
               /\ call.timestamp = <<calls[Len(calls)][3]>>
               /\ call.timestamp[1] = 1000 * AuthorSeconds(calls[Len(calls)][2])

\* The importer returned after it recorded c1 and then c2, the log naming
\* c2 first.
C35_Witness ==
    /\ Done
    /\ importer.log = <<"c2", "c1">>
    /\ importer.events = CallsFor(<<CommitPath("c1"), CommitPath("c2")>>)
    /\ call.timestamp = <<2000>>

\* The requests that have listeners on a stdout, in the current state.
NowReading == {i \in 1..Len(requests) : requests[i].status = "reading"}

\* One request at a time: at most one request has listeners on stdout, and
\* it is one that the locked mutex was given to.
OneAtATime ==
    /\ Cardinality(NowReading) <= 1
    /\ NowReading # {} => mutex.locked
    /\ \A i \in NowReading, k \in 1..Len(mutex.queue) : mutex.queue[k].req # i

\* What request i got of cat-file's answers is what cat-file wrote for it.
OwnResponse(i) ==
    /\ \A k \in 1..Len(requests[i].buf) : requests[i].buf[k].req = i
    /\ requests[i].status = "resolved" => requests[i].data = <<requests[i].spec>>

\* C36: the reader serves one readObject at a time on its cat-file process:
\* concurrent calls are serialized by the mutex, only the request holding it
\* has listeners on stdout, and each response is delivered to the request
\* that wrote the object name.
C36_OneRequestAtATime ==
    /\ OneAtATime
    /\ \A i \in 1..Len(requests) : OwnResponse(i)

\* C37: the automatic clean-up never kills the cat-file process while a
\* readObject holds the mutex; it kills it only when at least 1100 ms have
\* passed since the last request started and re-arms its 250 ms timer
\* otherwise; a timer that finds process null arms no other.
C37_AutoCleanUpSparesRequests ==
    [][/\ \A k \in 1..Len(autos') :
              LET d == autos'[k]
              IN  IF d.kill
                  THEN /\ d.idle >= IdleLimit
                       /\ d.reading = {}
                       /\ d.process # 0 => children'[d.process] \in {"killed", "closed"}
                  ELSE /\ d.idle < IdleLimit
                       /\ \E j \in 1..Len(timers') : timers'[j] = time + TimerDelay
       /\ (event'.op = "timer" /\ process = 0) =>
              /\ Len(timers') = Len(timers) - 1
              /\ mutex' = mutex
              /\ children' = children
              /\ process' = 0]_vars

\* The clean-up killed the process of a request that had resolved, 1250 ms
\* after the request started.
C37_Witness ==
    /\ autos # << >>
    /\ autos[1].kill
    /\ autos[1].idle = 1250
    /\ autos[1].process = 1
    /\ children[1] = "killed"
    /\ process = 0
    /\ \E i \in 1..Len(requests) : requests[i].status = "resolved"

\* The header line cat-file wrote for request i has reached its listener.
HeaderReached(i) ==
    \E k \in 1..Len(requests[i].buf) : requests[i].buf[k] = Piece(i, "head")

\* The mutex is locked only while a request has it.
LockedByARequest == mutex.locked => NowReading # {}

\* C38: readObject rejects when the header line of the response reports the
\* object as missing; the rejection removes the listeners and releases the
\* mutex, so that a later readObject on the same reader is served.
C38_MissingObjectsAreRejected ==
    /\ \A i \in 1..Len(requests) :
           (HeaderReached(i) /\ Object(requests[i].spec).type = Missing) =>
               /\ requests[i].status = "rejected"
               /\ requests[i].error = "missing"
    /\ LockedByARequest
    /\ \A i \in 1..Len(requests) :
           requests[i].status = "waiting" => mutex.locked

\* C39: once buildLineLogFromGitHistory has settled, the reader's cleanUp
\* has run: the cat-file process is killed and reader.process is null.
C39_ReaderIsCleanedUp ==
    Done =>
        /\ process = 0
        /\ \A p \in 1..Len(children) : children[p] \in {"killed", "closed"}
        /\ importer.events[Len(importer.events)] = <<"cleanUp">>

\* The importer returned from a history of two commits, and the process it
\* read them from is killed.
C39_Witness ==
    /\ Done
    /\ Len(importer.history) = 2
    /\ Len(children) >= 1
    /\ children[1] \in {"killed", "closed"}
    /\ process = 0
    /\ maxRev >= 1

====
